---- MODULE Spec2Model ----
(***************************************************************************)
(* Verification model of the kiro-api gateway: the credential manager      *)
(* (KiroAuthManager), the credential cache (AuthManagerCache), the         *)
(* credential parsing of the routes and the upstream HTTP client           *)
(* (KiroHttpClient.requestWithRetry).                                      *)
(*                                                                         *)
(* JavaScript runs one task at a time.  An action of this model is the     *)
(* code that runs between two suspension points (await).  The microtask    *)
(* queue is explicit (microq): continuations of a settled promise run in   *)
(* registration order before any I/O event, timer or clock tick.           *)
(* Time is in seconds (the code's milliseconds divided by 1000).           *)
(***************************************************************************)
EXTENDS Integers, Sequences, FiniteSets, TLC

VARIABLES
    now,        \* Date.now(), in seconds
    managers,   \* KiroAuthManager instances: id -> fields
    refreshes,  \* every _refreshTokenRequest() started so far, by id
    proc,       \* callers of the credential manager: id -> position
    microq,     \* the microtask queue
    client,     \* requestWithRetry activations: id -> position
    cache,      \* AuthManagerCache.cache: sequence of [key, mgr] in Map order
    reqs,       \* inbound requests seen by the routes: id -> credential, outcome
    upstream,   \* the upstream response body: its bytes and how many were read
    parser,     \* the AwsEventStreamParser of the response: its fields
    fed,        \* the events returned by the feed() calls so far, in order
    returned,   \* what the last getToolCalls() returned
    gen,        \* the stream generator of the response: its locals and position
    frames,     \* the SSE frames written to the client so far, in order
    usage,      \* one call of calculateUsageTokens: its arguments and result
    conv,       \* one call of buildKiroPayload: its request and result
    disk,       \* the credentials file and one _saveCredentialsToFile() on it
    resp        \* one response converted to the other dialect and back

\* the gateway's credential side and its response side
authVars == <<now, managers, refreshes, proc, microq, client, cache, reqs>>
parserVars == <<upstream, parser, fed, returned>>
streamVars == <<gen, frames>>
pureVars == <<usage, conv, disk, resp>>
pipeVars == <<parserVars, streamVars, pureVars>>
vars == <<authVars, pipeVars>>

----------------------------------------------------------------------------
(* Bounds of the model *)

NumCallers == 3       \* concurrent callers of one credential manager
MaxNow == 1           \* clock ticks in one behaviour
MaxPosts == 3         \* refresh POSTs sent in one behaviour
MaxSize == 2          \* maxSize of the credential cache under study
MaxOps == 4           \* requests and cache operations in one behaviour
MaxCalls == 2         \* tool calls finalized by one parser
MaxArguments == 6     \* length of the arguments a tool event is added to
MaxContent == 9       \* characters of the content of one response
MaxChunks == 3        \* chunks one response body delivers
MaxMessages == 3      \* messages of one chat request
MaxFinalized == 1     \* finalized tool calls at which the object events end
MaxTools == 2         \* tools of one chat request
MaxDescription == 2   \* the limit on the length of a tool description
MaxEvents == 3        \* tool events of one response in the count of its calls

(* Program constants *)

TOKEN_REFRESH_THRESHOLD == 600   \* config.tokenRefreshThreshold (seconds)
EXPIRY_SKEW == 60                \* expiresIn - 60
DEFAULT_EXPIRES_IN == 3600       \* data.expiresIn || 3600
REFRESH_MAX_RETRIES == 3         \* maxRetries of _refreshTokenRequest
REFRESH_BASE_DELAY == 1          \* baseDelay of _refreshTokenRequest (seconds)

Callers == 1..NumCallers

NoToken == <<>>                  \* _accessToken = null
EmptyString == <<>>              \* "" (strings are sequences of characters)

\* bodies the refresh endpoint may answer with HTTP 200 (accessToken present):
\* expiresIn absent (0), or leaving exactly / one second more than the
\* threshold after the skew; refreshToken absent (empty) or rotated
RefreshResponses ==
    { [expiresIn |-> 0, refreshToken |-> EmptyString],
      [expiresIn |-> TOKEN_REFRESH_THRESHOLD + EXPIRY_SKEW,
       refreshToken |-> <<"n">>],
      [expiresIn |-> TOKEN_REFRESH_THRESHOLD + EXPIRY_SKEW + 1,
       refreshToken |-> EmptyString] }

\* no response is being read
NoUpstream == [text |-> <<>>, pos |-> 0]
NoParser == [buffer |-> <<>>]
NotReturned == [called |-> FALSE, toolCalls |-> <<>>]
NoStream == [pc |-> "none"]
NoUsage == [pc |-> "none"]
NoConv == [pc |-> "none"]
InitNoParser ==
    /\ upstream = NoUpstream
    /\ parser = NoParser
    /\ fed = <<>>
    /\ returned = NotReturned
InitNoStream ==
    /\ gen = NoStream
    /\ frames = <<>>
InitNoUsage == usage = NoUsage
InitNoConv == conv = NoConv
NoDisk == [pc |-> "none"]
NoResp == [pc |-> "none"]
InitNoDisk == disk = NoDisk
InitNoResp == resp = NoResp
InitPipe ==
    /\ InitNoParser
    /\ InitNoStream
    /\ InitNoUsage
    /\ InitNoConv
    /\ InitNoDisk
    /\ InitNoResp

----------------------------------------------------------------------------
(* KiroAuthManager *)

\* An access token names the refresh that minted it and the refresh token
\* that was presented for it; <<0, rt>> is a token loaded from the
\* credentials file.
Token(serial, sent) == <<serial, sent>>

NewManager(rt, tok, ek, ea) ==
    [refreshToken |-> rt, accessToken |-> tok,
     expiresKind |-> ek, expiresAt |-> ea, refreshLock |-> 0]

\* (variant: the comparison is strict)
IsTokenExpiringSoonStrict(m, t) ==
    \/ m.expiresKind = "null"
    \/ m.expiresKind = "date" /\ m.expiresAt < t + TOKEN_REFRESH_THRESHOLD

\* isTokenExpiringSoon(): no expiresAt -> true; an Invalid Date compares
\* false with everything.
IsTokenExpiringSoon(m, t) ==
    \/ m.expiresKind = "null"
    \/ m.expiresKind = "date" /\ m.expiresAt <= t + TOKEN_REFRESH_THRESHOLD

\* the condition of getAccessToken() guarding the refresh
NeedsRefresh(m, t) == m.accessToken = NoToken \/ IsTokenExpiringSoon(m, t)

\* data.expiresIn || 3600
EffectiveExpiresIn(e) == IF e = 0 THEN DEFAULT_EXPIRES_IN ELSE e

\* new Date(Date.now() + (expiresIn - 60) * 1000)
ComputeExpiresAt(t, e) == t + (EffectiveExpiresIn(e) - EXPIRY_SKEW)

Running(r) == r.phase \in {"thrown", "post"}
Settled(r) == r.phase \in {"ok", "failed"}

RefreshIds == 1..Len(refreshes)
FailedIds == {r \in RefreshIds : refreshes[r].phase = "failed"}

\* the POSTs a refresh has sent: one per attempt begun, none when it threw
\* before the loop
Posts(r) == IF r.sent = EmptyString THEN 0 ELSE r.attempt + 1
TotalPosts(S) == LET RECURSIVE Sum(_)
                     Sum(T) == IF T = {} THEN 0
                               ELSE LET x == CHOOSE y \in T : TRUE
                                    IN Posts(refreshes[x]) + Sum(T \ {x})
                 IN Sum(S)

\* response.ok
ResponseIsOk(status) == status >= 200 /\ status < 300

\* the statuses the refresh endpoint may answer with
RefreshStatuses == {200, 400, 401, 403, 429, 500, 502, 503, 504}
\* [429, 500, 502, 503, 504].includes(status)
IsRefreshRetryStatus(status) == status \in {429, 500, 502, 503, 504}

\* (variant: the delay does not grow with the attempt)
RefreshDelayConstant(attempt) == REFRESH_BASE_DELAY

\* baseDelay * Math.pow(2, attempt)
RefreshDelay(attempt) == REFRESH_BASE_DELAY * 2 ^ attempt

\* the promise returned by _refreshTokenRequest() up to its first await:
\* without a refresh token it is rejected at once and nothing is sent,
\* otherwise the first POST is in flight.
NewRefresh(mid, c) ==
    LET m == managers[mid] IN
    [mgr |-> mid, by |-> c, sent |-> m.refreshToken,
     attempt |-> 0, lastError |-> FALSE, slept |-> 0,
     phase |-> IF m.refreshToken = EmptyString THEN "thrown" ELSE "post",
     err |-> IF m.refreshToken = EmptyString THEN "TokenRefreshError" ELSE "none",
     expiresIn |-> 0, waiters |-> <<c>>]

\* throw lastError || new TokenRefreshError("All retry attempts failed")
ExhaustedError(lastError) ==
    IF lastError THEN "NetworkError" ELSE "TokenRefreshError"

\* (variant: the lock is cleared by .then(), on success only)
ReleaseLockOnSuccess(lock, outcome) == IF outcome = "ok" THEN 0 ELSE lock

\* .finally(() => { this._refreshLock = null })
ReleaseLock(lock, outcome) == 0

IdleProc(mid) ==
    [mgr |-> mid, op |-> "none", pc |-> "idle", wait |-> 0,
     ret |-> NoToken, err |-> "none", errOf |-> 0]

\* what a finished call hands to whoever awaits it: nothing for a direct
\* caller, a continuation microtask for requestWithRetry
Continuation(c) == IF client[c].pc = "none" THEN <<>> ELSE << <<"cont", c>> >>

\* this._refreshLock = this._refreshTokenRequest().finally(...);
\* await this._refreshLock
StartRefresh(c, p, mq) ==
    LET mid == p.mgr
        id == Len(refreshes) + 1
        r == NewRefresh(mid, c)
    IN /\ r.phase = "post" => TotalPosts(RefreshIds) < MaxPosts
       /\ refreshes' = Append(refreshes, r)
       /\ managers' = [managers EXCEPT ![mid].refreshLock = id]
       /\ proc' = [proc EXCEPT ![c] = [p EXCEPT !.pc = "waitOwn", !.wait = id]]
       /\ microq' = IF r.phase = "thrown" THEN Append(mq, <<"finally", id>>)
                    ELSE mq

\* return this._accessToken
ReturnToken(c, p, mq) ==
    /\ proc' = [proc EXCEPT ![c] = [p EXCEPT !.pc = "done", !.wait = 0,
                                             !.ret = managers[p.mgr].accessToken]]
    /\ microq' = mq \o Continuation(c)
    /\ UNCHANGED <<managers, refreshes>>

\* a throw out of getAccessToken() / forceRefresh()
Throw(c, p, mq, e, rid) ==
    /\ proc' = [proc EXCEPT ![c] = [p EXCEPT !.pc = "done", !.wait = 0,
                                             !.err = e, !.errOf = rid]]
    /\ microq' = mq \o Continuation(c)
    /\ UNCHANGED <<managers, refreshes>>

\* (variant: the caller that waited refreshes again whatever the token is)
AfterLockWaitAlways(c, p, mq) == StartRefresh(c, p, mq)

\* the code after the first "if (this._refreshLock) await this._refreshLock":
\* getAccessToken() refreshes when the token is missing or expiring,
\* forceRefresh() always; neither looks at _refreshLock again.
AfterLockWait(c, p, mq) ==
    IF p.op = "forceRefresh" \/ NeedsRefresh(managers[p.mgr], now)
    THEN StartRefresh(c, p, mq)
    ELSE ReturnToken(c, p, mq)

\* the code after "await this._refreshLock" of the caller's own refresh
AfterOwnRefresh(c, p, mq) ==
    IF p.op = "getAccessToken" /\ managers[p.mgr].accessToken = NoToken
    THEN Throw(c, p, mq, "TokenRefreshError", 0)
    ELSE ReturnToken(c, p, mq)

\* entry of getAccessToken() / forceRefresh(), up to the first suspension
Enter(c, mid, op, mq) ==
    LET p == [IdleProc(mid) EXCEPT !.op = op]
        lock == managers[p.mgr].refreshLock
    IN IF lock # 0
       THEN /\ proc' = [proc EXCEPT ![c] = [p EXCEPT !.pc = "waitLock", !.wait = lock]]
            /\ refreshes' = [refreshes EXCEPT ![lock].waiters = Append(@, c)]
            /\ microq' = IF Settled(refreshes[lock])
                         THEN Append(mq, <<"resume", c>>) ELSE mq
            /\ UNCHANGED managers
       ELSE AfterLockWait(c, p, mq)

NoResumePending == \A i \in 1..Len(microq) : microq[i][1] = "finally"

\* a caller calls getAccessToken() or forceRefresh()
Call(c, op) ==
    /\ client[c].pc = "none"
    /\ proc[c].pc = "idle"
    /\ \A d \in Callers : d < c => proc[d].pc # "idle"   \* callers are interchangeable
    /\ NoResumePending
    /\ Enter(c, proc[c].mgr, op, microq)
    /\ UNCHANGED <<now, client, cache, reqs, pipeVars>>

CallGetAccessToken == \E c \in Callers : Call(c, "getAccessToken")
CallForceRefresh == \E c \in Callers : Call(c, "forceRefresh")

ResumeItems(ws) == [i \in 1..Len(ws) |-> <<"resume", ws[i]>>]

\* the refresh promise settles: the finally callback runs, then the
\* awaiting callers are queued in the order they started to await
Settle(rid, r, mq) ==
    /\ refreshes' = [refreshes EXCEPT ![rid] = r]
    /\ microq' = mq \o ResumeItems(r.waiters)

\* microtask: the finally callback of a refresh rejected before its first await
FinallyThrown ==
    /\ microq # <<>>
    /\ Head(microq)[1] = "finally"
    /\ LET rid == Head(microq)[2]
           r == [refreshes[rid] EXCEPT !.phase = "failed"]
       IN /\ Settle(rid, r, Tail(microq))
          /\ managers' = [managers EXCEPT ![r.mgr].refreshLock =
                              ReleaseLock(@, "failed")]
    /\ UNCHANGED <<now, proc, client, cache, reqs, pipeVars>>

\* microtask: a caller resumes after the refresh it awaited has settled
Resume ==
    /\ microq # <<>>
    /\ Head(microq)[1] = "resume"
    /\ LET c == Head(microq)[2]
           p == proc[c]
           r == refreshes[p.wait]
           mq == Tail(microq)
       IN IF r.phase = "failed" THEN Throw(c, p, mq, r.err, p.wait)
          ELSE IF p.pc = "waitLock" THEN AfterLockWait(c, p, mq)
          ELSE AfterOwnRefresh(c, p, mq)
    /\ UNCHANGED <<now, client, cache, reqs, pipeVars>>

InFlight(rid) == rid \in RefreshIds /\ refreshes[rid].phase = "post" /\ microq = <<>>

\* 2xx with an accessToken: the fields are updated and the promise fulfils
ResponseOk ==
    \E rid \in RefreshIds, data \in RefreshResponses :
        /\ InFlight(rid)
        /\ LET r == refreshes[rid]
               e == data.expiresIn
               nrt == data.refreshToken IN
           /\ Settle(rid, [r EXCEPT !.phase = "ok", !.expiresIn = e,
                                    !.lastError = FALSE], microq)
           /\ managers' = [managers EXCEPT ![r.mgr] =
                 [@ EXCEPT !.accessToken = Token(rid, r.sent),
                           !.refreshToken = IF nrt # EmptyString THEN nrt ELSE @,
                           !.expiresKind = "date",
                           !.expiresAt = ComputeExpiresAt(now, e),
                           !.refreshLock = ReleaseLock(@, "ok")]]
        /\ UNCHANGED <<now, proc, client, cache, reqs, pipeVars>>

\* sleep(delay), and when it has ended: the next attempt's POST, or, after
\* the last attempt, throw lastError || new TokenRefreshError(...)
AfterSleep(rid, r) ==
    IF r.attempt + 1 < REFRESH_MAX_RETRIES
    THEN /\ TotalPosts(RefreshIds) < MaxPosts
         /\ refreshes' = [refreshes EXCEPT ![rid] =
               [r EXCEPT !.attempt = @ + 1, !.slept = @ + RefreshDelay(r.attempt)]]
         /\ UNCHANGED <<managers, microq>>
    ELSE /\ Settle(rid, [r EXCEPT !.phase = "failed", !.lastError = FALSE,
                                  !.slept = @ + RefreshDelay(r.attempt),
                                  !.err = ExhaustedError(r.lastError)], microq)
         /\ managers' = [managers EXCEPT ![r.mgr].refreshLock =
                             ReleaseLock(@, "failed")]

\* HTTP 429/500/502/503/504: sleep(delay), continue (lastError is left as
\* it is).  The sleep only delays the flow, so the step runs to the next
\* POST or to the throw that follows the last attempt.
ResponseRetryable ==
    \E rid \in RefreshIds :
        /\ InFlight(rid)
        /\ {status \in RefreshStatuses :
                ~ResponseIsOk(status) /\ IsRefreshRetryStatus(status)} # {}
        /\ AfterSleep(rid, refreshes[rid])
        /\ UNCHANGED <<now, proc, client, cache, reqs, pipeVars>>

\* fetch() rejects or the body is no JSON: the catch block sets lastError
\* and sleeps, then the loop goes on
ResponseNetworkError ==
    \E rid \in RefreshIds :
        /\ InFlight(rid)
        /\ AfterSleep(rid, [refreshes[rid] EXCEPT !.lastError = TRUE])
        /\ UNCHANGED <<now, proc, client, cache, reqs, pipeVars>>

\* another non-2xx status, or a 2xx body without accessToken:
\* TokenRefreshError, rethrown by the catch block
ResponseFatal ==
    \E rid \in RefreshIds :
        /\ InFlight(rid)
        /\ {status \in RefreshStatuses :
                ResponseIsOk(status) \/ ~IsRefreshRetryStatus(status)} # {}
        /\ LET r == refreshes[rid] IN
           /\ Settle(rid, [r EXCEPT !.phase = "failed", !.lastError = FALSE,
                                    !.err = "TokenRefreshError"], microq)
           /\ managers' = [managers EXCEPT ![r.mgr].refreshLock =
                               ReleaseLock(@, "failed")]
        /\ UNCHANGED <<now, proc, client, cache, reqs, pipeVars>>

Tick ==
    /\ now < MaxNow
    /\ microq = <<>>
    /\ now' = now + 1
    /\ UNCHANGED <<managers, refreshes, proc, microq, client, cache, reqs, pipeVars>>

----------------------------------------------------------------------------
(* KiroHttpClient.requestWithRetry *)

CLIENT_MAX_RETRIES == 3   \* config.maxRetries, config.firstTokenMaxRetries
BASE_RETRY_DELAY == 1     \* config.baseRetryDelay (seconds)

\* the upstream statuses told apart by the code: ok, 403, 429, 5xx, other
ClientStatuses == {200, 403, 429, 503, 400}

IsRetryStatus(status) == status = 429 \/ (status >= 500 /\ status < 600)

\* (variant: the delay does not grow with the attempt)
BackoffDelayConstant(attempt) == BASE_RETRY_DELAY

\* config.baseRetryDelay * Math.pow(2, attempt)
BackoffDelay(attempt) == BASE_RETRY_DELAY * 2 ^ attempt

\* one pass of the for loop: the token of the request sent (none when
\* getAccessToken() threw), the refresh POSTs sent before it, the status
\* received, the forceRefresh() calls made and what the last returned, and
\* the sleep that ended the pass (0: none)
NewIteration ==
    [token |-> NoToken, posts |-> 0, status |-> 0,
     forced |-> 0, forceTok |-> NoToken, delay |-> 0]

NewClient(stream) ==
    [pc |-> "start", stream |-> stream, attempt |-> 0, iters |-> <<>>,
     result |-> "none", status |-> 0]

Last(cl) == Len(cl.iters)

\* the head of the for loop: the next pass begins with getAccessToken(), or
\* the loop is over and TimeoutError / UpstreamError is thrown
LoopHead(c, cl, mq) ==
    IF cl.attempt < CLIENT_MAX_RETRIES
    THEN /\ client' = [client EXCEPT ![c] =
               [cl EXCEPT !.pc = "token", !.iters = Append(@, NewIteration)]]
         /\ Enter(c, proc[c].mgr, "getAccessToken", mq)
    ELSE /\ client' = [client EXCEPT ![c] =
               [cl EXCEPT !.pc = "done",
                          !.result = IF cl.stream THEN "TimeoutError"
                                     ELSE "UpstreamError"]]
         /\ microq' = mq
         /\ UNCHANGED <<managers, refreshes, proc>>

\* continue / the end of the catch block: attempt++
NextIteration(c, cl, mq) == LoopHead(c, [cl EXCEPT !.attempt = @ + 1], mq)

\* await sleep(delay) before the next pass
Sleep(c, cl, mq) ==
    /\ client' = [client EXCEPT ![c] =
          [cl EXCEPT !.pc = "sleep", !.iters[Last(cl)].delay = BackoffDelay(cl.attempt)]]
    /\ microq' = mq
    /\ UNCHANGED <<managers, refreshes, proc>>

\* (variant: a 403 asks for the token again instead of forcing a refresh)
On403GetAccessToken(c, cl, mq) ==
    /\ client' = [client EXCEPT ![c] =
          [cl EXCEPT !.pc = "force", !.iters[Last(cl)].forced = @ + 1]]
    /\ Enter(c, proc[c].mgr, "getAccessToken", mq)

\* status 403: await this.authManager.forceRefresh(); continue
On403(c, cl, mq) ==
    /\ client' = [client EXCEPT ![c] =
          [cl EXCEPT !.pc = "force", !.iters[Last(cl)].forced = @ + 1]]
    /\ Enter(c, proc[c].mgr, "forceRefresh", mq)

ClientStart ==
    \E c \in Callers :
        /\ client[c].pc = "start"
        /\ microq = <<>>
        /\ LoopHead(c, client[c], microq)
        /\ UNCHANGED <<now, cache, reqs, pipeVars>>

\* microtask: getAccessToken() or forceRefresh() has settled.  A token is
\* put in the headers and the request is sent; forceRefresh() done means
\* continue; a throw of either goes to the outer catch, which sleeps.
ClientContinue ==
    /\ microq # <<>>
    /\ Head(microq)[1] = "cont"
    /\ LET c == Head(microq)[2]
           cl == client[c]
           mq == Tail(microq)
       IN IF proc[c].err # "none" THEN Sleep(c, cl, mq)
          ELSE IF cl.pc = "token"
          THEN /\ client' = [client EXCEPT ![c] =
                     [cl EXCEPT !.pc = "fetch",
                                !.iters[Last(cl)].token = proc[c].ret,
                                !.iters[Last(cl)].posts = TotalPosts(RefreshIds)]]
               /\ microq' = mq
               /\ UNCHANGED <<managers, refreshes, proc>>
          ELSE NextIteration(c, [cl EXCEPT !.iters[Last(cl)].forceTok = proc[c].ret], mq)
    /\ UNCHANGED <<now, cache, reqs, pipeVars>>

\* the upstream answers: ok and any status that is not 403, 429 or 5xx are
\* returned to the caller; 403 forces a refresh; 429 and 5xx sleep
ClientResponse ==
    \E c \in Callers, status \in ClientStatuses :
        /\ client[c].pc = "fetch"
        /\ microq = <<>>
        /\ LET cl == [client[c] EXCEPT !.iters[Last(client[c])].status = status] IN
           IF ResponseIsOk(status) \/ (status # 403 /\ ~IsRetryStatus(status))
           THEN /\ client' = [client EXCEPT ![c] =
                      [cl EXCEPT !.pc = "done", !.result = "response",
                                 !.status = status]]
                /\ UNCHANGED <<managers, refreshes, proc, microq>>
           ELSE IF status = 403 THEN On403(c, cl, microq)
           ELSE Sleep(c, cl, microq)
        /\ UNCHANGED <<now, cache, reqs, pipeVars>>

\* the timeout aborts the request: a streaming call goes on to the next
\* pass at once, another call sleeps first
ClientAbort ==
    \E c \in Callers :
        /\ client[c].pc = "fetch"
        /\ microq = <<>>
        /\ IF client[c].stream THEN NextIteration(c, client[c], microq)
           ELSE Sleep(c, client[c], microq)
        /\ UNCHANGED <<now, cache, reqs, pipeVars>>

\* fetch() rejects with another error: sleep, next pass
ClientNetworkError ==
    \E c \in Callers :
        /\ client[c].pc = "fetch"
        /\ microq = <<>>
        /\ Sleep(c, client[c], microq)
        /\ UNCHANGED <<now, cache, reqs, pipeVars>>

\* the sleep ends
ClientTimer ==
    \E c \in Callers :
        /\ client[c].pc = "sleep"
        /\ microq = <<>>
        /\ NextIteration(c, client[c], microq)
        /\ UNCHANGED <<now, cache, reqs, pipeVars>>

----------------------------------------------------------------------------
(* Strings: sequences of one-character strings *)

StartsWith(s, p) == Len(s) >= Len(p) /\ SubSeq(s, 1, Len(p)) = p
Slice(s, n) == SubSeq(s, n + 1, Len(s))
Includes(s, ch) == \E i \in 1..Len(s) : s[i] = ch
\* the index of the first ch at or after position from, Len(s) + 1 if none
IndexFrom(s, ch, from) ==
    IF \E i \in from..Len(s) : s[i] = ch
    THEN CHOOSE i \in from..Len(s) : s[i] = ch /\ \A j \in from..(i - 1) : s[j] # ch
    ELSE Len(s) + 1
\* s.split(ch, 2) of a string that includes ch: the pieces before the first
\* ch and between the first and the second ch (or the end); what follows a
\* second ch is dropped
Split2(s, ch) ==
    LET i == IndexFrom(s, ch, 1)
        j == IndexFrom(s, ch, i + 1)
    IN <<SubSeq(s, 1, i - 1), SubSeq(s, i + 1, j - 1)>>

----------------------------------------------------------------------------
(* AuthManagerCache and the credential parsing of the routes *)

PROXY_API_KEY == <<"k">>                         \* config.proxyApiKey
BearerPrefix == <<"B", "e", "a", "r", "e", "r", " ">>
DEFAULT_MAX_INPUT_TOKENS == 200000  \* config.defaultMaxInputTokens
MAX_CONSECUTIVE_TIMEOUTS == 3   \* maxConsecutiveTimeouts of the OpenAI stream
STREAM_MAX_RETRIES == 3         \* maxRetries of streamKiroWithRetry
STREAM_RETRY_DELAY == 1         \* seconds between attempts of streamKiroWithRetry
BEARER_SLICE == 7                                \* authHeader.slice(7)
AUTHENTICATION_ERROR_STATUS == 401               \* AuthenticationError.statusCode

NullManager == [absent |-> TRUE]                 \* state.authManager = null
GLOBAL == 1                                      \* managers[1] is state.authManager

\* a header or parameter of a request: absent (undefined) or a string
Missing == [present |-> FALSE, text |-> EmptyString]
Text(s) == [present |-> TRUE, text |-> s]
Bearer(s) == Text(BearerPrefix \o s)
Truthy(h) == h.present /\ h.text # EmptyString

\* (variant: the lookup never finds the key)
CacheHasNever(c, key) == FALSE

\* Map.has(key)
CacheHas(c, key) == \E i \in 1..Len(c) : c[i].key = key

CacheIndex(c, key) == CHOOSE i \in 1..Len(c) : c[i].key = key
RemoveAt(c, i) == SubSeq(c, 1, i - 1) \o SubSeq(c, i + 1, Len(c))

\* getOrCreate(refreshToken): the cache after the call, the manager returned
\* and whether it was constructed by the call (it is then managers[id]).
\* The function has no await: it runs in one piece.
GetOrCreate(c, key, id) ==
    IF CacheHas(c, key)
    THEN LET i == CacheIndex(c, key)
         IN [cache |-> Append(RemoveAt(c, i), c[i]), mgr |-> c[i].mgr,
             created |-> FALSE]
    ELSE LET c1 == Append(c, [key |-> key, mgr |-> id])
             oldestKey == c1[1].key
         IN [cache |-> IF Len(c1) > MaxSize /\ oldestKey # EmptyString
                       THEN Tail(c1) ELSE c1,
             mgr |-> id, created |-> TRUE]

Rejected == [kind |-> "AuthenticationError", key |-> EmptyString]

\* (variant: the multi-tenant branch does not verify the proxy key)
ParseTokenUnverified(token) ==
    IF Includes(token, ":")
    THEN [kind |-> "cache", key |-> Split2(token, ":")[2]]
    ELSE IF token # PROXY_API_KEY THEN Rejected
    ELSE [kind |-> "global", key |-> EmptyString]

\* parseToken(token), and the body of parseAuthHeader after slice(7): which
\* manager the credential selects
ParseToken(token) ==
    IF Includes(token, ":")
    THEN LET parts == Split2(token, ":")
             proxyKey == parts[1]
             refreshToken == parts[2]
         IN IF proxyKey # PROXY_API_KEY THEN Rejected
            ELSE [kind |-> "cache", key |-> refreshToken]
    ELSE IF token # PROXY_API_KEY THEN Rejected
    ELSE [kind |-> "global", key |-> EmptyString]

\* parseAuthHeader(authHeader) of the OpenAI route
ParseAuthHeader(authHeader) ==
    IF ~Truthy(authHeader) \/ ~StartsWith(authHeader.text, BearerPrefix)
    THEN Rejected
    ELSE ParseToken(Slice(authHeader.text, BEARER_SLICE))

\* parseApiKey(xApiKey, authHeader) of the Anthropic route
ParseApiKey(xApiKey, authHeader) ==
    IF Truthy(xApiKey) THEN ParseToken(xApiKey.text)
    ELSE IF Truthy(authHeader) /\ StartsWith(authHeader.text, BearerPrefix)
    THEN ParseToken(Slice(authHeader.text, BEARER_SLICE))
    ELSE Rejected

\* what reqs records of a request or cache operation
Entry(route, h, x, outcome, status, key, mgr) ==
    [route |-> route, header |-> h, xApiKey |-> x, outcome |-> outcome,
     status |-> status, key |-> key, mgr |-> mgr]

\* the route up to the manager it goes on with, or the 401 it answers
Authenticate(route, h, x, res) ==
    LET id == Len(managers) + 1 IN
    IF res.kind = "cache"
    THEN LET g == GetOrCreate(cache, res.key, id) IN
         /\ cache' = g.cache
         /\ managers' = IF g.created
                        THEN Append(managers, NewManager(res.key, NoToken, "null", 0))
                        ELSE managers
         /\ reqs' = Append(reqs, Entry(route, h, x, "manager", 0, res.key, g.mgr))
    ELSE IF res.kind = "global" /\ managers[GLOBAL] # NullManager
    THEN /\ reqs' = Append(reqs, Entry(route, h, x, "manager", 0, EmptyString, GLOBAL))
         /\ UNCHANGED <<cache, managers>>
    ELSE /\ reqs' = Append(reqs, Entry(route, h, x, "AuthenticationError",
                                       AUTHENTICATION_ERROR_STATUS, EmptyString, 0))
         /\ UNCHANGED <<cache, managers>>

\* the Authorization headers tried
Headers ==
    {Missing, Text(<<"k", ":", "a">>),
     Bearer(<<"k">>), Bearer(<<"x">>),
     Bearer(<<"k", ":", "a">>), Bearer(<<"k", ":", "b">>), Bearer(<<"k", ":", "c">>),
     Bearer(<<"k", ":">>), Bearer(<<"k", ":", "a", ":", "b">>),
     Bearer(<<"x", ":", "a">>)}

\* the (x-api-key, Authorization) pairs tried
ApiKeyPairs ==
    {<<Missing, Missing>>,
     <<Text(<<"k", ":", "a">>), Missing>>,
     <<Text(<<"x">>), Bearer(<<"k">>)>>,
     <<Text(EmptyString), Bearer(<<"k", ":", "b">>)>>}

OpenAIRequest ==
    /\ Len(reqs) < MaxOps
    /\ \E h \in Headers : Authenticate("openai", h, Missing, ParseAuthHeader(h))
    /\ UNCHANGED <<now, refreshes, proc, microq, client, pipeVars>>

AnthropicRequest ==
    /\ Len(reqs) < MaxOps
    /\ \E p \in ApiKeyPairs :
          Authenticate("anthropic", p[2], p[1], ParseApiKey(p[1], p[2]))
    /\ UNCHANGED <<now, refreshes, proc, microq, client, pipeVars>>

\* clear()
CacheClear ==
    /\ Len(reqs) < MaxOps
    /\ cache' = <<>>
    /\ reqs' = Append(reqs, Entry("clear", Missing, Missing, "none", 0, EmptyString, 0))
    /\ UNCHANGED <<now, managers, refreshes, proc, microq, client, pipeVars>>

\* remove(refreshToken)
CacheRemove ==
    /\ Len(reqs) < MaxOps
    /\ \E key \in {EmptyString, <<"a">>} :
          /\ cache' = IF CacheHas(cache, key)
                      THEN RemoveAt(cache, CacheIndex(cache, key)) ELSE cache
          /\ reqs' = Append(reqs, Entry("remove", Missing, Missing,
                                        IF CacheHas(cache, key) THEN "true" ELSE "false",
                                        0, key, 0))
    /\ UNCHANGED <<now, managers, refreshes, proc, microq, client, pipeVars>>

\* the Authorization headers of tenants: PROXY_API_KEY:REFRESH_TOKEN
TenantHeaders ==
    {Bearer(<<"k", ":", "a">>), Bearer(<<"k", ":", "b">>),
     Bearer(<<"k", ":", "a", ":", "b">>), Bearer(<<"k", ":">>)}

\* a tenant's request arrives at the OpenAI route; request i is caller i
TenantRequest ==
    /\ Len(reqs) < NumCallers
    /\ microq = <<>>
    /\ \E h \in TenantHeaders : Authenticate("openai", h, Missing, ParseAuthHeader(h))
    /\ UNCHANGED <<now, refreshes, proc, microq, client, pipeVars>>

\* an authenticated request goes on to requestWithRetry, which begins with
\* getAccessToken() on the manager the route was given
RouteGetAccessToken ==
    \E c \in Callers :
        /\ c <= Len(reqs)
        /\ reqs[c].outcome = "manager"
        /\ proc[c].pc = "idle"
        /\ NoResumePending
        /\ Enter(c, reqs[c].mgr, "getAccessToken", microq)
        /\ UNCHANGED <<now, client, cache, reqs, pipeVars>>

----------------------------------------------------------------------------
(* JavaScript values and JSON texts *)

Q == "\""                 \* the quote character
BSL == "\\"               \* the backslash character
DigitChars == <<"0", "1", "2", "3", "4", "5", "6", "7", "8", "9">>
Digits == {DigitChars[i] : i \in 1..Len(DigitChars)}

\* a value: its type tag and, in v, the characters of a string or number,
\* the <<key, value>> members of an object, the items of an array
Undefined == [t |-> "undefined", v |-> <<>>]
Null == [t |-> "null", v |-> <<"n", "u", "l", "l">>]
True == [t |-> "boolean", v |-> <<"t", "r", "u", "e">>]
False == [t |-> "boolean", v |-> <<"f", "a", "l", "s", "e">>]
Str(chars) == [t |-> "string", v |-> chars]
Num(digits) == [t |-> "number", v |-> digits]
Obj(members) == [t |-> "object", v |-> members]
Arr(items) == [t |-> "array", v |-> items]

\* typeof x === "object" (null and arrays included)
TypeofObject(x) == x.t \in {"object", "array", "null"}
\* the truthiness of a value
IsTruthy(x) ==
    CASE x.t \in {"undefined", "null"} -> FALSE
      [] x.t = "string" -> x.v # <<>>
      [] x.t = "number" -> \E i \in 1..Len(x.v) : x.v[i] # "0"
      [] x.t = "boolean" -> x = True
      [] OTHER -> TRUE

HasKey(members, k) == \E i \in 1..Len(members) : members[i][1] = k
\* obj[k] = x: a key keeps its place, a new key goes last
SetKey(members, k, x) ==
    IF HasKey(members, k)
    THEN [i \in 1..Len(members) |->
             IF members[i][1] = k THEN <<k, x>> ELSE members[i]]
    ELSE Append(members, <<k, x>>)
\* obj[k], undefined when absent
GetKey(members, k) ==
    IF HasKey(members, k)
    THEN members[CHOOSE i \in 1..Len(members) : members[i][1] = k][2]
    ELSE Undefined

RECURSIVE SetAll(_, _)
SetAll(members, more) ==
    IF more = <<>> THEN members
    ELSE SetAll(SetKey(members, more[1][1], more[1][2]), Tail(more))

\* the own enumerable members a spread {...x} copies: those of an object,
\* the indexes of an array (of at most ten items), none of another value
SpreadOf(x) ==
    CASE x.t = "object" -> x.v
      [] x.t = "array" -> [i \in 1..Len(x.v) |-> << <<DigitChars[i]>>, x.v[i]>>]
      [] OTHER -> <<>>

NoParse == [ok |-> FALSE, val |-> Undefined, rest |-> <<>>]
Parsed(val, rest) == [ok |-> TRUE, val |-> val, rest |-> rest]

\* the index, from i on, of the quote that closes the string whose body
\* starts at s[i], 0 if none: the first quote that an odd number of
\* backslashes does not precede
ClosingQuote(s, i) ==
    LET closes(j) == /\ s[j] = Q
                     /\ Cardinality({k \in i..(j - 1) :
                            \A m \in k..(j - 1) : s[m] = BSL}) % 2 = 0
    IN IF \E j \in i..Len(s) : closes(j)
       THEN CHOOSE j \in i..Len(s) : closes(j) /\ \A m \in i..(j - 1) : ~closes(m)
       ELSE 0

\* the characters of a string literal's body: \" is a quote and \\ a
\* backslash
Unescape(body) ==
    LET escaped(i) == i > 1 /\ body[i - 1] = BSL
                            /\ Cardinality({k \in 1..(i - 1) :
                                   \A m \in k..(i - 1) : body[m] = BSL}) % 2 = 1
        chars == [i \in 1..Len(body) |->
                    IF body[i] = BSL /\ ~escaped(i) THEN "" ELSE body[i]]
    IN SelectSeq(chars, LAMBDA ch : ch # "")
\* the body of the literal of a string
Escape(chars) ==
    LET special(i) == chars[i] \in {Q, BSL}
        start(i) == i + Cardinality({j \in 1..(i - 1) : special(j)})
        total == Len(chars) + Cardinality({j \in 1..Len(chars) : special(j)})
    IN [n \in 1..total |->
          IF \E i \in 1..Len(chars) : start(i) = n
          THEN LET i == CHOOSE i \in 1..Len(chars) : start(i) = n
               IN IF special(i) THEN BSL ELSE chars[i]
          ELSE chars[CHOOSE i \in 1..Len(chars) : start(i) + 1 = n]]

ParseString(s) ==
    IF s = <<>> \/ s[1] # Q \/ ClosingQuote(s, 2) = 0 THEN NoParse
    ELSE LET j == ClosingQuote(s, 2)
         IN Parsed(Str(Unescape(SubSeq(s, 2, j - 1))), SubSeq(s, j + 1, Len(s)))

RECURSIVE DigitRun(_, _)
DigitRun(s, i) == IF i <= Len(s) /\ s[i] \in Digits THEN DigitRun(s, i + 1) ELSE i - 1

ParseLiteral(s, x) ==
    IF Len(s) >= Len(x.v) /\ SubSeq(s, 1, Len(x.v)) = x.v
    THEN Parsed(x, SubSeq(s, Len(x.v) + 1, Len(s)))
    ELSE NoParse

\* JSON.parse of a text without white space: a value and what follows it
RECURSIVE ParseValue(_), ParseMembers(_, _), ParseItems(_, _)
ParseValue(s) ==
    IF s = <<>> THEN NoParse
    ELSE CASE s[1] = "{" ->
                 IF Len(s) >= 2 /\ s[2] = "}"
                 THEN Parsed(Obj(<<>>), SubSeq(s, 3, Len(s)))
                 ELSE ParseMembers(Tail(s), <<>>)
           [] s[1] = "[" ->
                 IF Len(s) >= 2 /\ s[2] = "]"
                 THEN Parsed(Arr(<<>>), SubSeq(s, 3, Len(s)))
                 ELSE ParseItems(Tail(s), <<>>)
           [] s[1] = Q -> ParseString(s)
           [] s[1] \in Digits ->
                 LET j == DigitRun(s, 1)
                 IN Parsed(Num(SubSeq(s, 1, j)), SubSeq(s, j + 1, Len(s)))
           [] s[1] = "t" -> ParseLiteral(s, True)
           [] s[1] = "f" -> ParseLiteral(s, False)
           [] s[1] = "n" -> ParseLiteral(s, Null)
           [] OTHER -> NoParse

ParseMembers(s, acc) ==
    LET k == ParseString(s) IN
    IF ~k.ok \/ k.rest = <<>> \/ k.rest[1] # ":" THEN NoParse
    ELSE LET x == ParseValue(Tail(k.rest)) IN
         IF ~x.ok \/ x.rest = <<>> THEN NoParse
         ELSE LET acc1 == SetKey(acc, k.val.v, x.val) IN
              IF x.rest[1] = "," THEN ParseMembers(Tail(x.rest), acc1)
              ELSE IF x.rest[1] = "}" THEN Parsed(Obj(acc1), Tail(x.rest))
              ELSE NoParse

ParseItems(s, acc) ==
    LET x == ParseValue(s) IN
    IF ~x.ok \/ x.rest = <<>> THEN NoParse
    ELSE LET acc1 == Append(acc, x.val) IN
         IF x.rest[1] = "," THEN ParseItems(Tail(x.rest), acc1)
         ELSE IF x.rest[1] = "]" THEN Parsed(Arr(acc1), Tail(x.rest))
         ELSE NoParse

\* JSON.parse(text): the value, or a SyntaxError (ok = FALSE)
JSONParse(s) ==
    LET x == ParseValue(s) IN
    IF x.ok /\ x.rest = <<>>
    THEN Parsed(x.val, <<>>)
    ELSE NoParse

\* JSON.stringify(value)
RECURSIVE JSONStringify(_), JoinMembers(_), JoinItems(_)
JSONStringify(x) ==
    CASE x.t = "object" -> <<"{">> \o JoinMembers(x.v) \o <<"}">>
      [] x.t = "array" -> <<"[">> \o JoinItems(x.v) \o <<"]">>
      [] x.t = "string" -> <<Q>> \o Escape(x.v) \o <<Q>>
      [] OTHER -> x.v
JoinMembers(ms) ==
    IF ms = <<>> THEN <<>>
    ELSE <<Q>> \o Escape(ms[1][1]) \o <<Q, ":">> \o JSONStringify(ms[1][2])
         \o (IF Len(ms) > 1 THEN <<",">> ELSE <<>>) \o JoinMembers(Tail(ms))
JoinItems(xs) ==
    IF xs = <<>> THEN <<>>
    ELSE JSONStringify(xs[1])
         \o (IF Len(xs) > 1 THEN <<",">> ELSE <<>>) \o JoinItems(Tail(xs))

\* String(value) of a string or a number
ToStr(x) == x.v

\* what safeParseJSON returns for the outcome of JSON.parse(str)
ValueOrText(parse, str) == IF parse.ok THEN parse.val ELSE Str(str)

\* safeParseJSON(str): JSON.parse of the text, the text itself when it is
\* empty or does not parse.  The texts of this model have no white space, no
\* trailing backslash, no comma before a closing bracket, no bare word and no
\* control character: trim(), the truncated-escape cut, repairJson() and the
\* control-character fix leave them as they are.
SafeParseJSON(s) ==
    IF s = <<>> THEN Str(s) ELSE ValueOrText(JSONParse(s), s)

----------------------------------------------------------------------------
(* AwsEventStreamParser *)

K_content == <<"c", "o", "n", "t", "e", "n", "t">>
K_name == <<"n", "a", "m", "e">>
K_input == <<"i", "n", "p", "u", "t">>
K_stop == <<"s", "t", "o", "p">>
K_followupPrompt == <<"f", "o", "l", "l", "o", "w", "u", "p", "P", "r", "o", "m", "p", "t">>
K_usage == <<"u", "s", "a", "g", "e">>
K_contextUsagePercentage == <<"c", "o", "n", "t", "e", "x", "t", "U", "s", "a", "g", "e", "P", "e", "r", "c", "e", "n", "t", "a", "g", "e">>
K_toolUseId == <<"t", "o", "o", "l", "U", "s", "e", "I", "d">>

\* '{"key":'
Pattern(key) == <<"{", Q>> \o key \o <<Q, ":">>

\* PATTERN_TYPE_MAP, as <<prefix, type>> pairs
PATTERN_TYPE_MAP ==
    { <<Pattern(K_content), "content">>,
      <<Pattern(K_name), "tool_start">>,
      <<Pattern(K_input), "tool_input">>,
      <<Pattern(K_stop), "tool_stop">>,
      <<Pattern(K_followupPrompt), "followup">>,
      <<Pattern(K_usage), "usage">>,
      <<Pattern(K_contextUsagePercentage), "context_usage">> }
Patterns == {m[1] : m \in PATTERN_TYPE_MAP}
MatchesAt(text, i, pat) ==
    i + Len(pat) - 1 <= Len(text) /\ SubSeq(text, i, i + Len(pat) - 1) = pat

\* PATTERN_REGEX.exec(buffer): the index of the first match, 0 if none
FirstMatch(text) ==
    LET at == {i \in 1..Len(text) : \E pat \in Patterns : MatchesAt(text, i, pat)}
    IN IF at = {} THEN 0 ELSE CHOOSE i \in at : \A j \in at : i <= j

\* the first index from i on whose character can change braceCount,
\* inString or escapeNext, Len(text) + 1 if none: the passes of the loop
\* over the other characters leave the three as they are
NextMark(text, i) ==
    IF \E k \in i..Len(text) : text[k] \in {BSL, Q, "{", "}"}
    THEN CHOOSE k \in i..Len(text) :
            /\ text[k] \in {BSL, Q, "{", "}"}
            /\ \A m \in i..(k - 1) : text[m] \notin {BSL, Q, "{", "}"}
    ELSE Len(text) + 1

\* the loop of findMatchingBrace from index i on; 0 stands for -1
RECURSIVE BraceScan(_, _, _, _, _)
BraceScan(text, i, braceCount, inString, escapeNext) ==
    IF i > Len(text) THEN 0
    ELSE IF escapeNext THEN BraceScan(text, i + 1, braceCount, inString, FALSE)
    ELSE IF text[i] = BSL /\ inString
    THEN BraceScan(text, i + 1, braceCount, inString, TRUE)
    ELSE IF text[i] = Q
    THEN BraceScan(text, NextMark(text, i + 1), braceCount, ~inString, FALSE)
    ELSE IF ~inString /\ text[i] = "{"
    THEN BraceScan(text, NextMark(text, i + 1), braceCount + 1, inString, FALSE)
    ELSE IF ~inString /\ text[i] = "}"
    THEN IF braceCount - 1 = 0 THEN i
         ELSE BraceScan(text, NextMark(text, i + 1), braceCount - 1, inString, FALSE)
    ELSE BraceScan(text, NextMark(text, i + 1), braceCount, inString, FALSE)

\* findMatchingBrace(text, startPos), with indexes from 1 and 0 for -1
FindMatchingBrace(text, startPos) ==
    IF startPos > Len(text) \/ text[startPos] # "{" THEN 0
    ELSE BraceScan(text, startPos, 0, FALSE, FALSE)

\* The bytes of a body are ASCII characters, written as themselves, and the
\* two bytes C3 A9 of the character U+00E9.
\* new TextDecoder().decode(chunk): each chunk is decoded on its own; a
\* lead byte without its continuation byte, and a continuation byte
\* without its lead byte, become U+FFFD.
Decode(bytes) ==
    LET chars == [i \in 1..Len(bytes) |->
                    CASE bytes[i] = "C3" ->
                            IF i < Len(bytes) /\ bytes[i + 1] = "A9"
                            THEN "U+00E9" ELSE "U+FFFD"
                      [] bytes[i] = "A9" ->
                            IF i > 1 /\ bytes[i - 1] = "C3"
                            THEN "" ELSE "U+FFFD"
                      [] OTHER -> bytes[i]]
    IN SelectSeq(chars, LAMBDA ch : ch # "")

NoToolCall == [id |-> <<>>, name |-> <<>>, arguments |-> <<>>, set |-> FALSE]
ToolCall(id, name, arguments) ==
    [id |-> id, name |-> name, arguments |-> arguments, set |-> TRUE]
EmptyObjectText == <<"{", "}">>

\* a parser after construction; generated counts the ids handed out by
\* generateToolCallId()
NewParser ==
    [buffer |-> <<>>, lastContent |-> Null, currentToolCall |-> NoToolCall,
     toolCalls |-> <<>>, generated |-> 0]

\* generateToolCallId(): an id no other call has
GeneratedId(n) == <<"#", DigitChars[n + 1]>>

NoEvent == [type |-> "none", data |-> Undefined]
Event(type, data) == [type |-> type, data |-> data]
Result(p, event) == [parser |-> p, event |-> event]

\* x || y
Or(x, y) == IF IsTruthy(x) THEN x ELSE y

\* typeof x === "object" && x !== null
IsObject(x) == TypeofObject(x) /\ x.t # "null"

\* the arguments _finalizeToolCall() writes for what safeParseJSON returned
ArgumentsOf(parsed) ==
    IF IsObject(parsed) THEN JSONStringify(parsed) ELSE EmptyObjectText

\* the arguments _finalizeToolCall() leaves in the call
FinalArguments(args) ==
    IF args # <<>> THEN ArgumentsOf(SafeParseJSON(args)) ELSE EmptyObjectText

\* (variant: the call stays the current call after it was pushed)
FinalizeToolCallKeepingOpen(p) ==
    IF ~p.currentToolCall.set THEN p
    ELSE [p EXCEPT
            !.toolCalls = Append(@, [p.currentToolCall EXCEPT
                                        !.arguments = FinalArguments(@)])]

\* _finalizeToolCall()
FinalizeToolCall(p) ==
    IF ~p.currentToolCall.set THEN p
    ELSE [p EXCEPT
            !.toolCalls = Append(@, [p.currentToolCall EXCEPT
                                        !.arguments = FinalArguments(@)]),
            !.currentToolCall = NoToolCall]

\* (variant: repeated content is not dropped)
ProcessContentEventRepeating(p, data) ==
    LET content == Or(GetKey(data.v, K_content), Str(<<>>)) IN
    IF IsTruthy(GetKey(data.v, K_followupPrompt)) THEN Result(p, NoEvent)
    ELSE Result([p EXCEPT !.lastContent = content], Event("content", content))

\* _processContentEvent(data)
ProcessContentEvent(p, data) ==
    LET content == Or(GetKey(data.v, K_content), Str(<<>>)) IN
    IF IsTruthy(GetKey(data.v, K_followupPrompt)) THEN Result(p, NoEvent)
    ELSE IF content = p.lastContent THEN Result(p, NoEvent)
    ELSE Result([p EXCEPT !.lastContent = content], Event("content", content))

\* _processToolStartEvent(data), after the previous call was finalized:
\* the new current call
StartToolCall(p, data, input, toolUseId) ==
    [p EXCEPT
        !.currentToolCall =
            ToolCall(IF IsTruthy(toolUseId) THEN ToStr(toolUseId)
                     ELSE GeneratedId(p.generated),
                     ToStr(Or(GetKey(data.v, K_name), Str(<<>>))),
                     IF TypeofObject(input) THEN JSONStringify(input)
                     ELSE IF IsTruthy(input) THEN ToStr(input) ELSE <<>>),
        !.generated = IF IsTruthy(toolUseId) THEN @ ELSE @ + 1]

\* if (data.stop) this._finalizeToolCall()
FinalizeIfStop(p, data) ==
    IF IsTruthy(GetKey(data.v, K_stop)) THEN FinalizeToolCall(p) ELSE p

\* _processToolStartEvent(data)
ProcessToolStartEvent(p, data) ==
    Result(FinalizeIfStop(
               StartToolCall(IF p.currentToolCall.set THEN FinalizeToolCall(p) ELSE p,
                             data, GetKey(data.v, K_input), GetKey(data.v, K_toolUseId)),
               data),
           NoEvent)

\* the arguments after an object input: merged into the arguments so far
\* when these are an object, the input alone otherwise
MergedArguments(existingObj, input) ==
    IF IsObject(existingObj)
    THEN JSONStringify(Obj(SetAll(SpreadOf(existingObj), SpreadOf(input))))
    ELSE JSONStringify(input)

\* (variant: a string input is put before the arguments so far)
ToolInputPrepending(p, input) ==
    IF ~p.currentToolCall.set THEN p
    ELSE IF IsObject(input)
    THEN [p EXCEPT !.currentToolCall.arguments =
             MergedArguments(IF @ # <<>> THEN SafeParseJSON(@) ELSE Obj(<<>>), input)]
    ELSE [p EXCEPT !.currentToolCall.arguments =
             (IF IsTruthy(input) THEN ToStr(input) ELSE <<>>) \o @]

\* _processToolInputEvent(data) for the input of the event
ToolInput(p, input) ==
    IF ~p.currentToolCall.set THEN p
    ELSE IF IsObject(input)
    THEN [p EXCEPT !.currentToolCall.arguments =
             MergedArguments(IF @ # <<>> THEN SafeParseJSON(@) ELSE Obj(<<>>), input)]
    ELSE [p EXCEPT !.currentToolCall.arguments =
             @ \o (IF IsTruthy(input) THEN ToStr(input) ELSE <<>>)]

\* _processToolInputEvent(data)
ProcessToolInputEvent(p, data) ==
    Result(ToolInput(p, GetKey(data.v, K_input)), NoEvent)

\* _processToolStopEvent(data)
ProcessToolStopEvent(p, data) ==
    Result(IF p.currentToolCall.set /\ IsTruthy(GetKey(data.v, K_stop))
           THEN FinalizeToolCall(p) ELSE p, NoEvent)

\* _processEvent(data, eventType)
ProcessEvent(p, data, eventType) ==
    CASE eventType = "content" -> ProcessContentEvent(p, data)
      [] eventType = "tool_start" -> ProcessToolStartEvent(p, data)
      [] eventType = "tool_input" -> ProcessToolInputEvent(p, data)
      [] eventType = "tool_stop" -> ProcessToolStopEvent(p, data)
      [] eventType = "usage" ->
            Result(p, Event("usage", Or(GetKey(data.v, K_usage), Num(<<"0">>))))
      [] eventType = "context_usage" ->
            Result(p, Event("context_usage",
                            Or(GetKey(data.v, K_contextUsagePercentage), Num(<<"0">>))))
      [] OTHER -> Result(p, NoEvent)

\* events.push(event) unless the event is null
Push(events, event) == IF event # NoEvent THEN Append(events, event) ELSE events

\* the while loop of feed(): the parser and the events when it breaks
RECURSIVE FeedLoop(_, _), Extract(_, _, _), Process(_, _, _, _), Dispatch(_, _, _, _),
          Continue(_, _)
FeedLoop(p, events) == Extract(p, events, FirstMatch(p.buffer))

\* one pass of the loop, the pattern found at earliestPos (0: none)
Extract(p, events, earliestPos) ==
    IF earliestPos = 0 THEN [parser |-> p, events |-> events]
    ELSE IF IndexFrom(p.buffer, ":", earliestPos) > Len(p.buffer)
    THEN [parser |-> p, events |-> events]
    ELSE Process(p, events, earliestPos,
                 SubSeq(p.buffer, earliestPos, IndexFrom(p.buffer, ":", earliestPos)))

\* the rest of the pass for the pattern prefix read at earliestPos
Process(p, events, earliestPos, patternPrefix) ==
    IF patternPrefix \notin Patterns
    THEN FeedLoop([p EXCEPT !.buffer = Slice(@, earliestPos)], events)
    ELSE IF FindMatchingBrace(p.buffer, earliestPos) = 0
    THEN [parser |-> p, events |-> events]
    ELSE Dispatch([p EXCEPT !.buffer = Slice(@, FindMatchingBrace(p.buffer, earliestPos))],
                  events,
                  SafeParseJSON(SubSeq(p.buffer, earliestPos,
                                       FindMatchingBrace(p.buffer, earliestPos))),
                  (CHOOSE m \in PATTERN_TYPE_MAP : m[1] = patternPrefix)[2])

\* the extracted object, parsed, goes to _processEvent when it is an object
Dispatch(p, events, data, eventType) ==
    IF IsObject(data) THEN Continue(ProcessEvent(p, data, eventType), events)
    ELSE FeedLoop(p, events)

\* the next pass, after the event (if any) was pushed
Continue(r, events) == FeedLoop(r.parser, Push(events, r.event))

\* feed(chunk): a chunk is a string or bytes
StringChunk(chars) == [bytes |-> FALSE, data |-> chars]
ByteChunk(bytes) == [bytes |-> TRUE, data |-> bytes]
Feed(p, chunk) ==
    FeedLoop([p EXCEPT !.buffer = @ \o (IF chunk.bytes THEN Decode(chunk.data)
                                        ELSE chunk.data)], <<>>)

\* (variant: the first call of an id is kept whatever its arguments)
RECURSIVE ByIdKeepingFirst(_, _)
ByIdKeepingFirst(toolCalls, byId) ==
    IF toolCalls = <<>> THEN byId
    ELSE IF Head(toolCalls).id = <<>> \/ \E i \in 1..Len(byId) : byId[i].id = Head(toolCalls).id
    THEN ByIdKeepingFirst(Tail(toolCalls), byId)
    ELSE ByIdKeepingFirst(Tail(toolCalls), Append(byId, Head(toolCalls)))

\* deduplicateToolCalls(toolCalls), first loop: the Map byId in its order
RECURSIVE ById(_, _)
ById(toolCalls, byId) ==
    IF toolCalls = <<>> THEN byId
    ELSE LET tc == Head(toolCalls)
             at == {i \in 1..Len(byId) : byId[i].id = tc.id}
         IN IF tc.id = <<>> THEN ById(Tail(toolCalls), byId)
            ELSE IF at = {} THEN ById(Tail(toolCalls), Append(byId, tc))
            ELSE LET i == CHOOSE i \in at : TRUE
                     existingArgs == IF byId[i].arguments = <<>> THEN EmptyObjectText
                                     ELSE byId[i].arguments
                     currentArgs == IF tc.arguments = <<>> THEN EmptyObjectText
                                    ELSE tc.arguments
                 IN IF /\ currentArgs # EmptyObjectText
                       /\ \/ existingArgs = EmptyObjectText
                          \/ Len(currentArgs) > Len(existingArgs)
                    THEN ById(Tail(toolCalls), [byId EXCEPT ![i] = tc])
                    ELSE ById(Tail(toolCalls), byId)

\* `${funcName}-${funcArgs}`
DedupKey(tc) ==
    tc.name \o <<"-">> \o (IF tc.arguments = <<>> THEN EmptyObjectText ELSE tc.arguments)

\* deduplicateToolCalls(toolCalls), second loop
RECURSIVE Unique(_, _)
Unique(toolCalls, unique) ==
    IF toolCalls = <<>> THEN unique
    ELSE Unique(Tail(toolCalls),
                IF \E i \in 1..Len(unique) : DedupKey(unique[i]) = DedupKey(Head(toolCalls))
                THEN unique ELSE Append(unique, Head(toolCalls)))

DeduplicateToolCalls(toolCalls) ==
    Unique(ById(toolCalls, <<>>) \o SelectSeq(toolCalls, LAMBDA tc : tc.id = <<>>), <<>>)

\* getToolCalls(): the parser it leaves and the calls it returns
GetToolCalls(p) ==
    LET p1 == IF p.currentToolCall.set THEN FinalizeToolCall(p) ELSE p
    IN [parser |-> p1, toolCalls |-> DeduplicateToolCalls(p1.toolCalls)]

----------------------------------------------------------------------------
(* Token accounting *)

K_text == <<"t", "e", "x", "t">>
K_function == <<"f", "u", "n", "c", "t", "i", "o", "n">>
K_description == <<"d", "e", "s", "c", "r", "i", "p", "t", "i", "o", "n">>
K_parameters == <<"p", "a", "r", "a", "m", "e", "t", "e", "r", "s">>

\* countTokens(text): Math.ceil(text.length / 4), 0 for a falsy text
CountTokens(text) ==
    IF ~IsTruthy(text) THEN 0 ELSE (Len(ToStr(text)) + 3) \div 4

\* obj.key of a value (undefined when the value has no members)
Get(x, key) == IF x.t = "object" THEN GetKey(x.v, key) ELSE Undefined

\* the tokens countMessageTokens adds for one message
MessageTokens(msg) ==
    LET content == Get(msg, K_content)
        BlockTokens(block) == IF IsTruthy(Get(block, K_text))
                              THEN CountTokens(Get(block, K_text)) ELSE 0
        RECURSIVE Blocks(_)
        Blocks(bs) == IF bs = <<>> THEN 0 ELSE BlockTokens(Head(bs)) + Blocks(Tail(bs))
    IN CASE content.t = "string" -> CountTokens(content)
         [] content.t = "array" -> Blocks(content.v)
         [] OTHER -> 0

\* countMessageTokens(messages)
RECURSIVE CountMessageTokens(_)
CountMessageTokens(messages) ==
    IF messages = <<>> THEN 0
    ELSE MessageTokens(Head(messages)) + CountMessageTokens(Tail(messages))

\* the tokens countToolsTokens adds for one tool
ToolTokens(tool) ==
    LET function == Get(tool, K_function) IN
    IF IsTruthy(function)
    THEN CountTokens(Or(Get(function, K_name), Str(<<>>)))
         + CountTokens(Or(Get(function, K_description), Str(<<>>)))
         + CountTokens(Str(JSONStringify(Or(Get(function, K_parameters), Obj(<<>>)))))
    ELSE 0

\* countToolsTokens(tools)
RECURSIVE SumToolTokens(_)
SumToolTokens(tools) ==
    IF tools = <<>> THEN 0 ELSE ToolTokens(Head(tools)) + SumToolTokens(Tail(tools))
CountToolsTokens(tools) == IF ~IsTruthy(tools) THEN 0 ELSE SumToolTokens(tools.v)

\* A contextUsagePercentage is null or the number n / d; the model takes
\* numbers for which pct / 100 * maxInputTokens is exact in floating point.
NoPercent == [null |-> TRUE, n |-> 0, d |-> 1]
Percent(n, d) == [null |-> FALSE, n |-> n, d |-> d]

\* Math.floor((contextUsagePercentage / 100) * maxInputTokens), 0 when
\* the percentage is null or not positive
TotalTokensFromApi(pct, maxInputTokens) ==
    IF ~pct.null /\ pct.n > 0
    THEN (pct.n * maxInputTokens) \div (100 * pct.d)
    ELSE 0

\* (variant: the prompt tokens are the difference, not clamped at 0)
PromptTokensFromApiUnclamped(totalTokensFromApi, completionTokens) ==
    totalTokensFromApi - completionTokens

\* Math.max(0, totalTokensFromApi - completionTokens)
PromptTokensFromApi(totalTokensFromApi, completionTokens) ==
    IF totalTokensFromApi - completionTokens > 0
    THEN totalTokensFromApi - completionTokens ELSE 0

\* the local estimate of the prompt tokens
PromptTokensEstimate(requestMessages, requestTools) ==
    (IF IsTruthy(requestMessages) THEN CountMessageTokens(requestMessages.v) ELSE 0)
    + (IF IsTruthy(requestTools) THEN CountToolsTokens(requestTools) ELSE 0)

UsageInfo(promptTokens, completionTokens, totalTokens) ==
    [promptTokens |-> promptTokens, completionTokens |-> completionTokens,
     totalTokens |-> totalTokens]

\* calculateUsageTokens(fullContent, contextUsagePercentage, maxInputTokens,
\*                      requestMessages, requestTools)
CalculateUsageTokens(fullContent, contextUsagePercentage, maxInputTokens, requestMessages, requestTools) ==
    IF TotalTokensFromApi(contextUsagePercentage, maxInputTokens) > 0
    THEN UsageInfo(PromptTokensFromApi(
                       TotalTokensFromApi(contextUsagePercentage, maxInputTokens),
                       CountTokens(Str(fullContent))),
                   CountTokens(Str(fullContent)),
                   TotalTokensFromApi(contextUsagePercentage, maxInputTokens))
    ELSE UsageInfo(PromptTokensEstimate(requestMessages, requestTools),
                   CountTokens(Str(fullContent)),
                   PromptTokensEstimate(requestMessages, requestTools)
                       + CountTokens(Str(fullContent)))

----------------------------------------------------------------------------
(* The stream generators: streamKiroToOpenAIInternal behind
   streamKiroToOpenAI or streamKiroWithRetry, streamKiroToAnthropic,
   streamKiroToGemini *)

\* the value of the digits of a number
RECURSIVE NumValue(_)
NumValue(digits) ==
    IF digits = <<>> THEN 0
    ELSE NumValue(SubSeq(digits, 1, Len(digits) - 1)) * 10
         + ((CHOOSE i \in 1..10 : DigitChars[i] = digits[Len(digits)]) - 1)

\* the contextUsagePercentage kept by a generator, as calculateUsageTokens
\* reads it
ToPercent(x) == IF x.t = "number" THEN Percent(NumValue(x.v), 1) ELSE NoPercent

\* contentParts.join("")
RECURSIVE Join(_)
Join(parts) == IF parts = <<>> THEN <<>> ELSE ToStr(Head(parts)) \o Join(Tail(parts))

\* parseBracketToolCalls(responseText) of a text that does not include
\* "[Called" (no content of the model includes "["): no call
ParseBracketToolCalls(responseText) == <<>>

\* the locals of a generator that starts to read a response
Generator(dialect, retry, attempt, requests, sleeps) ==
    [dialect |-> dialect, retry |-> retry, pc |-> "request", attempt |-> attempt,
     requests |-> requests, sleeps |-> sleeps, chunks |-> 0,
     firstChunk |-> TRUE, meteringData |-> Null, contextUsagePercentage |-> Null,
     contentParts |-> <<>>, contentBlockIndex |-> 0, textBlockStarted |-> FALSE,
     consecutiveTimeouts |-> 0, abandoned |-> 0, error |-> "none",
     reader |-> FALSE, aborted |-> FALSE]

\* requestMessages and requestTools of the request that is answered
StreamMessages ==
    Arr(<<Obj(<< <<K_content, Str(<<"h", "e", "l", "l", "o">>)>> >>)>>)
StreamTools == Undefined

(* SSE frames *)
OpenAIChunk(role, content) ==
    [type |-> "chunk", role |-> role, content |-> content, finish_reason |-> "null"]
\* formatToolCallsForStreaming(toolCalls)
FormatToolCallsForStreaming(toolCalls) ==
    [i \in 1..Len(toolCalls) |->
        [index |-> i - 1, id |-> toolCalls[i].id, name |-> toolCalls[i].name,
         arguments |-> IF toolCalls[i].arguments = <<>> THEN EmptyObjectText
                       ELSE toolCalls[i].arguments]]
ToolCallsChunk(toolCalls) ==
    [type |-> "tool_calls", tool_calls |-> FormatToolCallsForStreaming(toolCalls),
     finish_reason |-> "null"]
FinalChunk(finishReason, u, meteringData) ==
    [type |-> "final", finish_reason |-> finishReason,
     prompt_tokens |-> u.promptTokens, completion_tokens |-> u.completionTokens,
     total_tokens |-> u.totalTokens, credits_used |-> meteringData]
DoneFrame == [type |-> "done"]

MessageStart(inputTokens) == [type |-> "message_start", input_tokens |-> inputTokens]
TextBlockStart(index) == [type |-> "content_block_start", index |-> index, block |-> "text"]
ToolBlockStart(index, tc) ==
    [type |-> "content_block_start", index |-> index, block |-> "tool_use",
     id |-> tc.id, name |-> tc.name]
TextDelta(index, content) ==
    [type |-> "content_block_delta", index |-> index, delta |-> "text_delta",
     text |-> content]
InputJsonDelta(index, json) ==
    [type |-> "content_block_delta", index |-> index, delta |-> "input_json_delta",
     text |-> Str(json)]
BlockStop(index) == [type |-> "content_block_stop", index |-> index]
MessageDelta(stopReason, outputTokens) ==
    [type |-> "message_delta", stop_reason |-> stopReason, output_tokens |-> outputTokens]
MessageStop == [type |-> "message_stop"]
ErrorFrame == [type |-> "error"]

GeminiChunk(content) == [type |-> "candidate", text |-> content]
FunctionCallChunk(name, toolArgs) ==
    [type |-> "functionCall", name |-> name, args |-> toolArgs]
GeminiFinal(u) ==
    [type |-> "finish", finishReason |-> "STOP", totalTokenCount |-> u.totalTokens]
EmptyResponse == [type |-> "empty", finishReason |-> "STOP"]

\* preCalculatedInputTokens of the Anthropic generator
PreCalculatedInputTokens ==
    (IF IsTruthy(StreamMessages) THEN CountMessageTokens(StreamMessages.v) ELSE 0)
    + (IF IsTruthy(StreamTools) THEN CountToolsTokens(StreamTools) ELSE 0)

\* a generator and the frames it yielded
Yielded(g, fs) == [gen |-> g, frames |-> fs]

\* the frames an event makes the OpenAI generator yield, and its locals
OpenAIEvent(g, fs, event) ==
    CASE event.type = "content" ->
            Yielded([g EXCEPT !.contentParts = Append(@, event.data),
                              !.firstChunk = FALSE],
                    Append(fs, OpenAIChunk(g.firstChunk, event.data)))
      [] event.type = "usage" -> Yielded([g EXCEPT !.meteringData = event.data], fs)
      [] event.type = "context_usage" ->
            Yielded([g EXCEPT !.contextUsagePercentage = event.data], fs)
      [] OTHER -> Yielded(g, fs)

\* the same for the Anthropic generator
AnthropicEvent(g, fs, event) ==
    CASE event.type = "content" ->
            Yielded([g EXCEPT !.contentParts = Append(@, event.data),
                              !.textBlockStarted = TRUE],
                    (IF g.textBlockStarted THEN fs
                     ELSE Append(fs, TextBlockStart(g.contentBlockIndex)))
                        \o <<TextDelta(g.contentBlockIndex, event.data)>>)
      [] event.type = "usage" -> Yielded([g EXCEPT !.meteringData = event.data], fs)
      [] event.type = "context_usage" ->
            Yielded([g EXCEPT !.contextUsagePercentage = event.data], fs)
      [] OTHER -> Yielded(g, fs)

\* the same for the Gemini generator
GeminiEvent(g, fs, event) ==
    CASE event.type = "content" ->
            Yielded([g EXCEPT !.contentParts = Append(@, event.data)],
                    Append(fs, GeminiChunk(event.data)))
      [] event.type = "usage" -> Yielded([g EXCEPT !.meteringData = event.data], fs)
      [] event.type = "context_usage" ->
            Yielded([g EXCEPT !.contextUsagePercentage = event.data], fs)
      [] OTHER -> Yielded(g, fs)

\* for (const event of events) of the generator of the dialect
RECURSIVE ForEvents(_, _)
ForEvents(y, events) ==
    IF events = <<>> THEN y
    ELSE ForEvents(CASE y.gen.dialect = "openai" ->
                           OpenAIEvent(y.gen, y.frames, Head(events))
                     [] y.gen.dialect = "anthropic" ->
                           AnthropicEvent(y.gen, y.frames, Head(events))
                     [] OTHER -> GeminiEvent(y.gen, y.frames, Head(events)),
                   Tail(events))

\* deduplicateToolCalls([...parser.getToolCalls(), ...bracketToolCalls])
AllToolCalls(toolCalls, fullContent) ==
    DeduplicateToolCalls(toolCalls \o ParseBracketToolCalls(fullContent))

\* the usage the generator computes at the end of the body
StreamUsage(g) ==
    CalculateUsageTokens(Join(g.contentParts), ToPercent(g.contextUsagePercentage),
                         DEFAULT_MAX_INPUT_TOKENS, StreamMessages, StreamTools)

\* what the OpenAI generator yields after the loop
OpenAIEnd(g, allToolCalls) ==
    (IF Len(allToolCalls) > 0 THEN <<ToolCallsChunk(allToolCalls)>> ELSE <<>>)
    \o <<FinalChunk(IF Len(allToolCalls) > 0 THEN "tool_calls" ELSE "stop",
                    StreamUsage(g), g.meteringData),
         DoneFrame>>

\* tc.function?.arguments || "{}"
ToolArgsStr(tc) == IF tc.arguments = <<>> THEN EmptyObjectText ELSE tc.arguments

\* JSON.parse(toolArgsStr), {} when it throws
ToolInputOf(toolArgsStr) ==
    IF JSONParse(toolArgsStr).ok THEN JSONParse(toolArgsStr).val ELSE Obj(<<>>)

\* Object.keys(toolInput).length
KeysCount(x) ==
    CASE x.t \in {"object", "array", "string"} -> Len(x.v)
      [] OTHER -> 0

\* the frames of the tool_use blocks from index on
RECURSIVE ToolUseBlocks(_, _)
ToolUseBlocks(toolCalls, index) ==
    IF toolCalls = <<>> THEN <<>>
    ELSE <<ToolBlockStart(index, Head(toolCalls))>>
         \o (IF KeysCount(ToolInputOf(ToolArgsStr(Head(toolCalls)))) > 0
             THEN <<InputJsonDelta(index,
                        JSONStringify(ToolInputOf(ToolArgsStr(Head(toolCalls)))))>>
             ELSE <<>>)
         \o <<BlockStop(index)>>
         \o ToolUseBlocks(Tail(toolCalls), index + 1)

\* (variant: contentBlockIndex is not incremented after the text block)
AnthropicEndSameIndex(g, allToolCalls) ==
    (IF g.textBlockStarted THEN <<BlockStop(g.contentBlockIndex)>> ELSE <<>>)
    \o ToolUseBlocks(allToolCalls, g.contentBlockIndex)
    \o <<MessageDelta(IF Len(allToolCalls) > 0 THEN "tool_use" ELSE "end_turn",
                      StreamUsage(g).completionTokens),
         MessageStop>>

\* what the Anthropic generator yields after the loop
AnthropicEnd(g, allToolCalls) ==
    (IF g.textBlockStarted THEN <<BlockStop(g.contentBlockIndex)>> ELSE <<>>)
    \o ToolUseBlocks(allToolCalls,
                     g.contentBlockIndex + (IF g.textBlockStarted THEN 1 ELSE 0))
    \o <<MessageDelta(IF Len(allToolCalls) > 0 THEN "tool_use" ELSE "end_turn",
                      StreamUsage(g).completionTokens),
         MessageStop>>

\* what the Gemini generator yields after the loop
GeminiEnd(g, allToolCalls) ==
    [i \in 1..Len(allToolCalls) |->
        FunctionCallChunk(allToolCalls[i].name,
                          ToolInputOf(ToolArgsStr(allToolCalls[i])))]
    \o <<GeminiFinal(StreamUsage(g))>>

\* the frames after the loop, for the dialect
EndFrames(g, allToolCalls) ==
    CASE g.dialect = "openai" -> OpenAIEnd(g, allToolCalls)
      [] g.dialect = "anthropic" -> AnthropicEnd(g, allToolCalls)
      [] OTHER -> GeminiEnd(g, allToolCalls)

----------------------------------------------------------------------------
(* converters.ts: mergeAdjacentMessages, buildKiroHistory, buildKiroPayload *)

K_type == <<"t", "y", "p", "e">>
K_tool_use_id == <<"t", "o", "o", "l", "_", "u", "s", "e", "_", "i", "d">>
K_id == <<"i", "d">>
K_arguments == <<"a", "r", "g", "u", "m", "e", "n", "t", "s">>
T_text == Str(K_text)
T_tool_result == Str(<<"t", "o", "o", "l", "_", "r", "e", "s", "u", "l", "t">>)
T_tool_use == Str(<<"t", "o", "o", "l", "_", "u", "s", "e">>)
LF == "LF"                                         \* the character \n
EMPTY_RESULT == <<"(", "e", "m", "p", "t", "y", " ", "r", "e", "s", "u", "l", "t", ")">>
CONTINUE == <<"C", "o", "n", "t", "i", "n", "u", "e">>

\* a chat message: role, content, tool_call_id and tool_calls (JavaScript
\* values, undefined when absent)
ChatMessage(role, content, toolCallId, toolCalls) ==
    [role |-> role, content |-> content, tool_call_id |-> toolCallId,
     tool_calls |-> toolCalls]

\* what an array element of a content adds to textParts, joined
ItemText(item) ==
    CASE item.t = "object" ->
            IF Get(item, K_type) = T_text
            THEN ToStr(Or(Get(item, K_text), Str(<<>>)))
            ELSE IF HasKey(item.v, K_text)
                 THEN (IF Get(item, K_text).t \in {"null", "undefined"} THEN <<>>
                       ELSE ToStr(Get(item, K_text)))
                 ELSE <<>>
      [] item.t = "string" -> item.v
      [] OTHER -> <<>>

RECURSIVE ItemsText(_)
ItemsText(items) ==
    IF items = <<>> THEN <<>> ELSE ItemText(Head(items)) \o ItemsText(Tail(items))

\* extractTextContent(content)
ExtractTextContent(content) ==
    CASE content.t \in {"null", "undefined"} -> <<>>
      [] content.t = "string" -> content.v
      [] content.t = "array" -> ItemsText(content.v)
      [] OTHER -> ToStr(content)

\* the tool results of the items of a content
RECURSIVE ItemsToolResults(_)
ItemsToolResults(items) ==
    IF items = <<>> THEN <<>>
    ELSE (IF Head(items).t = "object" /\ Get(Head(items), K_type) = T_tool_result
          THEN <<[content |-> ExtractTextContent(Get(Head(items), K_content)),
                  status |-> "success",
                  toolUseId |-> ToStr(Or(Get(Head(items), K_tool_use_id), Str(<<>>)))]>>
          ELSE <<>>)
         \o ItemsToolResults(Tail(items))

\* extractToolResults(content)
ExtractToolResults(content) ==
    IF content.t = "array" THEN ItemsToolResults(content.v) ELSE <<>>

\* JSON.parse(func.arguments || "{}"), {} when it throws
ParsedArguments(arguments) ==
    ToolInputOf(ToStr(Or(arguments, Str(EmptyObjectText))))

\* the tool uses of the tool_calls of an assistant message
RECURSIVE ToolCallsUses(_)
ToolCallsUses(tcs) ==
    IF tcs = <<>> THEN <<>>
    ELSE (IF Head(tcs).t = "object"
          THEN <<[name |-> ToStr(Or(Get(Or(Get(Head(tcs), K_function), Obj(<<>>)), K_name),
                                    Str(<<>>))),
                  input |-> ParsedArguments(Get(Or(Get(Head(tcs), K_function), Obj(<<>>)),
                                                K_arguments)),
                  toolUseId |-> ToStr(Or(Get(Head(tcs), K_id), Str(<<>>)))]>>
          ELSE <<>>)
         \o ToolCallsUses(Tail(tcs))

\* the tool uses of the tool_use blocks of a content
RECURSIVE ItemsToolUses(_)
ItemsToolUses(items) ==
    IF items = <<>> THEN <<>>
    ELSE (IF Head(items).t = "object" /\ Get(Head(items), K_type) = T_tool_use
          THEN <<[name |-> ToStr(Or(Get(Head(items), K_name), Str(<<>>))),
                  input |-> Or(Get(Head(items), K_input), Obj(<<>>)),
                  toolUseId |-> ToStr(Or(Get(Head(items), K_id), Str(<<>>)))]>>
          ELSE <<>>)
         \o ItemsToolUses(Tail(items))

\* extractToolUses(msg)
ExtractToolUses(msg) ==
    (IF msg.tool_calls.t = "array" THEN ToolCallsUses(msg.tool_calls.v) ELSE <<>>)
    \o (IF msg.content.t = "array" THEN ItemsToolUses(msg.content.v) ELSE <<>>)

\* the tool_result block collected for a tool message
ToolResultBlock(msg) ==
    Obj(<< <<K_type, T_tool_result>>,
           <<K_tool_use_id, Or(msg.tool_call_id, Str(<<>>))>>,
           <<K_content, Str(IF ExtractTextContent(msg.content) = <<>> THEN EMPTY_RESULT
                            ELSE ExtractTextContent(msg.content))>> >>)

\* the user message created for the pending tool results
ToolResultsMessage(pendingToolResults) ==
    ChatMessage("user", Arr(pendingToolResults), Undefined, Undefined)

\* the first loop of mergeAdjacentMessages: tool messages become the
\* tool_result blocks of user messages
RECURSIVE ConvertToolMessages(_, _, _)
ConvertToolMessages(messages, processed, pendingToolResults) ==
    IF messages = <<>>
    THEN (IF pendingToolResults # <<>>
          THEN Append(processed, ToolResultsMessage(pendingToolResults))
          ELSE processed)
    ELSE IF Head(messages).role = "tool"
         THEN ConvertToolMessages(Tail(messages), processed,
                                  Append(pendingToolResults,
                                         ToolResultBlock(Head(messages))))
         ELSE ConvertToolMessages(
                  Tail(messages),
                  (IF pendingToolResults # <<>>
                   THEN Append(processed, ToolResultsMessage(pendingToolResults))
                   ELSE processed) \o <<Head(messages)>>,
                  <<>>)

TextItem(chars) == Obj(<< <<K_type, T_text>>, <<K_text, Str(chars)>> >>)

\* last.content after msg was merged into last
MergedContent(last, msg) ==
    CASE last.content.t = "array" /\ msg.content.t = "array" ->
            Arr(last.content.v \o msg.content.v)
      [] last.content.t = "array" ->
            Arr(Append(last.content.v, TextItem(ExtractTextContent(msg.content))))
      [] msg.content.t = "array" ->
            Arr(<<TextItem(ExtractTextContent(last.content))>> \o msg.content.v)
      [] OTHER ->
            Str(ExtractTextContent(last.content) \o <<LF>>
                \o ExtractTextContent(msg.content))

\* last.tool_calls after msg was merged into last
MergedToolCalls(last, msg) ==
    IF msg.role = "assistant" /\ IsTruthy(msg.tool_calls)
    THEN Arr((IF IsTruthy(last.tool_calls) THEN last.tool_calls.v ELSE <<>>)
             \o msg.tool_calls.v)
    ELSE last.tool_calls

\* (variant: a message is pushed whatever the role of the last one)
MergeIntoNeverMerging(merged, msg) == Append(merged, msg)

\* one turn of the second loop of mergeAdjacentMessages
MergeInto(merged, msg) ==
    IF merged = <<>> THEN <<msg>>
    ELSE IF msg.role = merged[Len(merged)].role
         THEN [merged EXCEPT ![Len(merged)] =
                  [@ EXCEPT !.content = MergedContent(merged[Len(merged)], msg),
                            !.tool_calls = MergedToolCalls(merged[Len(merged)], msg)]]
         ELSE Append(merged, msg)

RECURSIVE MergeSameRole(_, _)
MergeSameRole(processed, merged) ==
    IF processed = <<>> THEN merged
    ELSE MergeSameRole(Tail(processed), MergeInto(merged, Head(processed)))

\* mergeAdjacentMessages(messages)
MergeAdjacentMessages(messages) ==
    IF messages = <<>> THEN <<>>
    ELSE MergeSameRole(ConvertToolMessages(messages, <<>>, <<>>), <<>>)

\* an entry of the history
UserInputMessage(content, toolResults) ==
    [kind |-> "userInputMessage", content |-> content, toolResults |-> toolResults,
     toolUses |-> <<>>]
AssistantResponseMessage(content, toolUses) ==
    [kind |-> "assistantResponseMessage", content |-> content, toolResults |-> <<>>,
     toolUses |-> toolUses]

\* buildKiroHistory(messages, modelId); the contents of the model hold no
\* image
RECURSIVE BuildKiroHistory(_)
BuildKiroHistory(messages) ==
    IF messages = <<>> THEN <<>>
    ELSE (CASE Head(messages).role = "user" ->
                  <<UserInputMessage(ExtractTextContent(Head(messages).content),
                                     ExtractToolResults(Head(messages).content))>>
            [] Head(messages).role = "assistant" ->
                  <<AssistantResponseMessage(ExtractTextContent(Head(messages).content),
                                             ExtractToolUses(Head(messages)))>>
            [] OTHER -> <<>>)
         \o BuildKiroHistory(Tail(messages))

IsSpace(ch) == ch \in {" ", LF}
\* s.trim()
Trim(s) ==
    IF \A i \in 1..Len(s) : IsSpace(s[i]) THEN <<>>
    ELSE SubSeq(s, CHOOSE i \in 1..Len(s) :
                       ~IsSpace(s[i]) /\ \A j \in 1..(i - 1) : IsSpace(s[j]),
                   CHOOSE i \in 1..Len(s) :
                       ~IsSpace(s[i]) /\ \A j \in (i + 1)..Len(s) : IsSpace(s[j]))

\* the system prompt before trim(): the texts of the system messages, each
\* followed by \n
RECURSIVE SystemTexts(_)
SystemTexts(messages) ==
    IF messages = <<>> THEN <<>>
    ELSE (IF Head(messages).role = "system"
          THEN ExtractTextContent(Head(messages).content) \o <<LF>> ELSE <<>>)
         \o SystemTexts(Tail(messages))

\* the system prompt of a request without tools (no tool documentation)
SystemPrompt(messages) == Trim(SystemTexts(messages))

NonSystemMessages(messages) == SelectSeq(messages, LAMBDA msg : msg.role # "system")

\* `${systemPrompt}\n\n${content}`
WithSystemPrompt(systemPrompt, content) == systemPrompt \o <<LF, LF>> \o content

\* (variant: the history is built from all the messages)
HistoryMessagesWithLast(mergedMessages, systemPrompt) ==
    IF systemPrompt # <<>> /\ mergedMessages[1].role = "user"
    THEN [mergedMessages EXCEPT ![1].content =
             Str(WithSystemPrompt(systemPrompt, ExtractTextContent(@)))]
    ELSE mergedMessages

\* historyMessages: all the messages but the last, the system prompt put
\* before the content of the first if it is a user message
HistoryMessages(mergedMessages, systemPrompt) ==
    IF Len(mergedMessages) > 1 /\ systemPrompt # <<>> /\ mergedMessages[1].role = "user"
    THEN [SubSeq(mergedMessages, 1, Len(mergedMessages) - 1) EXCEPT ![1].content =
             Str(WithSystemPrompt(systemPrompt, ExtractTextContent(@)))]
    ELSE SubSeq(mergedMessages, 1, Len(mergedMessages) - 1)

\* currentContent before the role of the current message is looked at
FirstCurrentContent(currentMessage, systemPrompt, history) ==
    IF systemPrompt # <<>> /\ history = <<>>
    THEN WithSystemPrompt(systemPrompt, ExtractTextContent(currentMessage.content))
    ELSE ExtractTextContent(currentMessage.content)

\* the payload: history and userInputMessage of the current message
Payload(history, content, toolResults) ==
    [thrown |-> FALSE, history |-> history, content |-> content,
     toolResults |-> toolResults]
NoMessagesToSend == [thrown |-> TRUE, history |-> <<>>, content |-> <<>>,
                     toolResults |-> <<>>]

\* the payload for the merged messages, their history and the current
\* content
PayloadOf(currentMessage, history, currentContent) ==
    IF currentMessage.role = "assistant"
    THEN Payload(Append(history, AssistantResponseMessage(currentContent, <<>>)),
                 CONTINUE, ExtractToolResults(currentMessage.content))
    ELSE Payload(history,
                 IF currentContent = <<>> THEN CONTINUE ELSE currentContent,
                 ExtractToolResults(currentMessage.content))

BuildFrom(mergedMessages, systemPrompt, history) ==
    PayloadOf(mergedMessages[Len(mergedMessages)], history,
              FirstCurrentContent(mergedMessages[Len(mergedMessages)], systemPrompt,
                                  history))

\* buildKiroPayload(requestData, conversationId, profileArn) of a request
\* without tools
BuildKiroPayload(messages) ==
    IF MergeAdjacentMessages(NonSystemMessages(messages)) = <<>>
    THEN NoMessagesToSend
    ELSE BuildFrom(MergeAdjacentMessages(NonSystemMessages(messages)),
                   SystemPrompt(messages),
                   BuildKiroHistory(
                       HistoryMessages(MergeAdjacentMessages(NonSystemMessages(messages)),
                                       SystemPrompt(messages))))

----------------------------------------------------------------------------
(* KiroAuthManager._saveCredentialsToFile *)

K_accessToken == <<"a", "c", "c", "e", "s", "s", "T", "o", "k", "e", "n">>
K_refreshToken == <<"r", "e", "f", "r", "e", "s", "h", "T", "o", "k", "e", "n">>
K_expiresAt == <<"e", "x", "p", "i", "r", "e", "s", "A", "t">>
K_profileArn == <<"p", "r", "o", "f", "i", "l", "e", "A", "r", "n">>

\* the lines of the members of JSON.stringify(obj, null, 2)
RECURSIVE IndentedMembers(_)
IndentedMembers(members) ==
    IF members = <<>> THEN <<>>
    ELSE <<" ", " ">> \o <<Q>> \o Escape(Head(members)[1]) \o <<Q, ":", " ">>
         \o JSONStringify(Head(members)[2])
         \o (IF Len(members) > 1 THEN <<",">> ELSE <<>>) \o <<LF>>
         \o IndentedMembers(Tail(members))

\* JSON.stringify(x, null, 2) of an object whose members are not objects
\* or arrays, or of another value
StringifyIndented(x) ==
    IF x.t = "object" /\ x.v # <<>>
    THEN <<"{", LF>> \o IndentedMembers(x.v) \o <<"}">>
    ELSE JSONStringify(x)

\* existingData after the assignments of the fields of the manager; a
\* field of the manager that is null or "" is undefined here
WithCredentials(existingData, accessToken, refreshToken, expiresAt, profileArn) ==
    SetAll(existingData,
           << <<K_accessToken, accessToken>>, <<K_refreshToken, refreshToken>> >>
           \o (IF IsTruthy(expiresAt) THEN << <<K_expiresAt, expiresAt>> >> ELSE <<>>)
           \o (IF IsTruthy(profileArn) THEN << <<K_profileArn, profileArn>> >> ELSE <<>>))

\* the text writeFileSync is given for the manager m and the parsed file
SavedText(existingData, m) ==
    StringifyIndented(Obj(WithCredentials(existingData.v, m.accessToken, m.refreshToken,
                                          m.expiresAt, m.profileArn)))

----------------------------------------------------------------------------
(* Response converters: convertOpenAIResponseToAnthropic,
   convertAnthropicResponseToOpenAI *)

K_choices == <<"c", "h", "o", "i", "c", "e", "s">>
K_message == <<"m", "e", "s", "s", "a", "g", "e">>
K_tool_calls == <<"t", "o", "o", "l", "_", "c", "a", "l", "l", "s">>
K_finish_reason == <<"f", "i", "n", "i", "s", "h", "_", "r", "e", "a", "s", "o", "n">>
K_stop_reason == <<"s", "t", "o", "p", "_", "r", "e", "a", "s", "o", "n">>
K_role == <<"r", "o", "l", "e">>
K_model == <<"m", "o", "d", "e", "l">>
K_prompt_tokens == <<"p", "r", "o", "m", "p", "t", "_", "t", "o", "k", "e", "n", "s">>
K_completion_tokens == <<"c", "o", "m", "p", "l", "e", "t", "i", "o", "n", "_", "t", "o", "k", "e", "n", "s">>
K_total_tokens == <<"t", "o", "t", "a", "l", "_", "t", "o", "k", "e", "n", "s">>
K_input_tokens == <<"i", "n", "p", "u", "t", "_", "t", "o", "k", "e", "n", "s">>
K_output_tokens == <<"o", "u", "t", "p", "u", "t", "_", "t", "o", "k", "e", "n", "s">>
R_stop == <<"s", "t", "o", "p">>
R_tool_calls == K_tool_calls
R_length == <<"l", "e", "n", "g", "t", "h">>
R_content_filter == <<"c", "o", "n", "t", "e", "n", "t", "_", "f", "i", "l", "t", "e", "r">>
R_end_turn == <<"e", "n", "d", "_", "t", "u", "r", "n">>
R_tool_use == <<"t", "o", "o", "l", "_", "u", "s", "e">>
R_max_tokens == <<"m", "a", "x", "_", "t", "o", "k", "e", "n", "s">>
R_stop_sequence == <<"s", "t", "o", "p", "_", "s", "e", "q", "u", "e", "n", "c", "e">>
Zero == Num(<<"0">>)

\* the decimal text of a natural number
RECURSIVE NumText(_)
NumText(n) ==
    IF n < 10 THEN <<DigitChars[n + 1]>>
    ELSE NumText(n \div 10) \o <<DigitChars[(n % 10) + 1]>>

\* x?.[0] of an array, undefined of anything else and of an empty array
FirstOf(x) == IF x.t = "array" /\ x.v # <<>> THEN x.v[1] ELSE Undefined

\* the tool_use blocks of message.tool_calls
RECURSIVE ToolUseBlocksOf(_, _)
ToolUseBlocksOf(tcs, clock) ==
    IF tcs = <<>> THEN <<>>
    ELSE <<Obj(<< <<K_type, T_tool_use>>,
                  <<K_id, Or(Get(Head(tcs), K_id), Str(<<"t", "o", "o", "l", "u", "_">> \o clock))>>,
                  <<K_name, Or(Get(Get(Head(tcs), K_function), K_name), Str(<<>>))>>,
                  <<K_input, ParsedArguments(Get(Get(Head(tcs), K_function), K_arguments))>> >>)>>
         \o ToolUseBlocksOf(Tail(tcs), clock)

\* the stop_reason of a finish_reason
StopReasonOf(finishReason) ==
    CASE finishReason = Str(R_tool_calls) -> Str(R_tool_use)
      [] finishReason = Str(R_length) -> Str(R_max_tokens)
      [] finishReason = Str(R_content_filter) -> Str(R_stop_sequence)
      [] OTHER -> Str(R_end_turn)

\* convertOpenAIResponseToAnthropic(openaiResponse, model), at the time
\* Date.now() = clock
ConvertOpenAIResponseToAnthropic(openaiResponse, model, clock) ==
    LET choice == FirstOf(Get(openaiResponse, K_choices))
        message == Or(Get(choice, K_message), Obj(<<>>))
        usage_ == Or(Get(openaiResponse, K_usage), Obj(<<>>))
        textBlocks ==
            IF IsTruthy(Get(message, K_content))
            THEN <<Obj(<< <<K_type, T_text>>, <<K_text, Get(message, K_content)>> >>)>>
            ELSE <<>>
        toolBlocks ==
            IF Get(message, K_tool_calls).t = "array"
            THEN ToolUseBlocksOf(Get(message, K_tool_calls).v, clock)
            ELSE <<>>
    IN  Obj(<< <<K_id, IF IsTruthy(Get(openaiResponse, K_id))
                       THEN Str(<<"m", "s", "g", "_">> \o Slice(Get(openaiResponse, K_id).v, 8))
                       ELSE Str(<<"m", "s", "g", "_">> \o clock)>>,
               <<K_type, Str(K_message)>>,
               <<K_role, Str(<<"a", "s", "s", "i", "s", "t", "a", "n", "t">>)>>,
               <<K_content, Arr(textBlocks \o toolBlocks)>>,
               <<K_model, model>>,
               <<K_stop_reason, StopReasonOf(Get(choice, K_finish_reason))>>,
               <<R_stop_sequence, Null>>,
               <<K_usage, Obj(<< <<K_input_tokens, Or(Get(usage_, K_prompt_tokens), Zero)>>,
                                 <<K_output_tokens, Or(Get(usage_, K_completion_tokens), Zero)>> >>)>> >>)

\* textContent after the loop over the blocks
RECURSIVE BlocksText(_)
BlocksText(blocks) ==
    IF blocks = <<>> THEN <<>>
    ELSE (IF Get(Head(blocks), K_type) = T_text
          THEN ToStr(Or(Get(Head(blocks), K_text), Str(<<>>)))
          ELSE <<>>)
         \o BlocksText(Tail(blocks))

\* toolCalls after the loop over the blocks
RECURSIVE BlocksToolCalls(_, _)
BlocksToolCalls(blocks, clock) ==
    IF blocks = <<>> THEN <<>>
    ELSE (IF Get(Head(blocks), K_type) = T_tool_use
          THEN <<Obj(<< <<K_id, Or(Get(Head(blocks), K_id), Str(<<"c", "a", "l", "l", "_">> \o clock))>>,
                        <<K_type, Str(K_function)>>,
                        <<K_function,
                          Obj(<< <<K_name, Or(Get(Head(blocks), K_name), Str(<<>>))>>,
                                 <<K_arguments,
                                   Str(JSONStringify(Or(Get(Head(blocks), K_input), Obj(<<>>))))>> >>)>> >>)>>
          ELSE <<>>)
         \o BlocksToolCalls(Tail(blocks), clock)

FinishReasonOfAlwaysStop(stopReason) == Str(R_stop)

\* the finish_reason of a stop_reason
FinishReasonOf(stopReason) ==
    CASE stopReason = Str(R_tool_use) -> Str(R_tool_calls)
      [] stopReason = Str(R_max_tokens) -> Str(R_length)
      [] OTHER -> Str(R_stop)

\* convertAnthropicResponseToOpenAI(anthropicResponse, model), at the time
\* Date.now() = clock (created, the time in seconds, is the clock too)
ConvertAnthropicResponseToOpenAI(anthropicResponse, model, clock) ==
    LET content == Or(Get(anthropicResponse, K_content), Arr(<<>>))
        usage_ == Or(Get(anthropicResponse, K_usage), Obj(<<>>))
        textContent == BlocksText(content.v)
        toolCalls == BlocksToolCalls(content.v, clock)
        inputTokens == Or(Get(usage_, K_input_tokens), Zero)
        outputTokens == Or(Get(usage_, K_output_tokens), Zero)
        message == << <<K_role, Str(<<"a", "s", "s", "i", "s", "t", "a", "n", "t">>)>>,
                      <<K_content, IF textContent # <<>> THEN Str(textContent) ELSE Null>> >>
                   \o (IF Len(toolCalls) > 0
                       THEN << <<K_tool_calls, Arr(toolCalls)>> >>
                       ELSE <<>>)
    IN  Obj(<< <<K_id, IF IsTruthy(Get(anthropicResponse, K_id))
                       THEN Str(<<"c", "h", "a", "t", "c", "m", "p", "l", "-">>
                                \o Slice(Get(anthropicResponse, K_id).v, 4))
                       ELSE Str(<<"c", "h", "a", "t", "c", "m", "p", "l", "-">> \o clock)>>,
               <<<<"o", "b", "j", "e", "c", "t">>, Str(<<"c", "h", "a", "t", ".", "c", "o", "m", "p", "l", "e", "t", "i", "o", "n">>)>>,
               <<<<"c", "r", "e", "a", "t", "e", "d">>, Num(clock)>>,
               <<K_model, model>>,
               <<K_choices,
                 Arr(<<Obj(<< <<<<"i", "n", "d", "e", "x">>, Zero>>,
                              <<K_message, Obj(message)>>,
                              <<K_finish_reason,
                                FinishReasonOf(Get(anthropicResponse, K_stop_reason))>> >>)>>)>>,
               <<K_usage, Obj(<< <<K_prompt_tokens, inputTokens>>,
                                 <<K_completion_tokens, outputTokens>>,
                                 <<K_total_tokens,
                                   Num(NumText(NumValue(inputTokens.v) + NumValue(outputTokens.v)))>> >>)>> >>)

----------------------------------------------------------------------------
(* One credential manager and its concurrent callers *)

\* the manager after construction: without or with a credentials file
\* (which may hold an access token and an expiresAt, valid or not)
InitialManagers ==
    {NewManager(EmptyString, NoToken, "null", 0),
     NewManager(<<"a">>, NoToken, "null", 0),
     NewManager(<<"a">>, Token(0, <<"a">>), "null", 0),
     NewManager(<<"a">>, Token(0, <<"a">>), "invalid", 0),
     NewManager(<<"a">>, Token(0, <<"a">>), "date", TOKEN_REFRESH_THRESHOLD),
     NewManager(<<"a">>, Token(0, <<"a">>), "date", TOKEN_REFRESH_THRESHOLD + 1)}

NoClient == [pc |-> "none"]

Init ==
    /\ now = 0
    /\ \E m \in InitialManagers : managers = <<m>>
    /\ refreshes = <<>>
    /\ proc = [c \in Callers |-> IdleProc(1)]
    /\ microq = <<>>
    /\ client = [c \in Callers |-> NoClient]
    /\ cache = <<>>
    /\ reqs = <<>>
    /\ InitPipe

Next ==
    \/ CallGetAccessToken
    \/ CallForceRefresh
    \/ FinallyThrown
    \/ Resume
    \/ ResponseOk
    \/ ResponseRetryable
    \/ ResponseNetworkError
    \/ ResponseFatal
    \/ Tick

Spec == Init /\ [][Next]_vars

----------------------------------------------------------------------------
(* One request through requestWithRetry on one credential manager *)

InitClient ==
    /\ now = 0
    /\ \E m \in InitialManagers : managers = <<m>>
    /\ refreshes = <<>>
    /\ proc = [c \in Callers |-> IdleProc(1)]
    /\ microq = <<>>
    /\ \E stream \in BOOLEAN :
          client = [c \in Callers |-> IF c = 1 THEN NewClient(stream) ELSE NoClient]
    /\ cache = <<>>
    /\ reqs = <<>>
    /\ InitPipe

NextClient ==
    \/ ClientStart
    \/ ClientContinue
    \/ ClientResponse
    \/ ClientAbort
    \/ ClientNetworkError
    \/ ClientTimer
    \/ FinallyThrown
    \/ Resume
    \/ ResponseOk
    \/ ResponseRetryable
    \/ ResponseNetworkError
    \/ ResponseFatal
    \/ Tick

SpecClient == InitClient /\ [][NextClient]_vars

----------------------------------------------------------------------------
(* The credential cache behind the routes *)

\* state.authManager: null, or the manager made from the server's settings
GlobalManagers == {NullManager, NewManager(<<"g">>, NoToken, "null", 0)}

InitCache ==
    /\ now = 0
    /\ \E m \in GlobalManagers : managers = <<m>>
    /\ refreshes = <<>>
    /\ proc = [c \in Callers |-> IdleProc(GLOBAL)]
    /\ microq = <<>>
    /\ client = [c \in Callers |-> NoClient]
    /\ cache = <<>>
    /\ reqs = <<>>
    /\ InitPipe

NextCache ==
    \/ OpenAIRequest
    \/ AnthropicRequest
    \/ CacheClear
    \/ CacheRemove

SpecCache == InitCache /\ [][NextCache]_vars

----------------------------------------------------------------------------
(* Concurrent requests of tenants, each using the manager it was given *)

NextTenant ==
    \/ TenantRequest
    \/ RouteGetAccessToken
    \/ FinallyThrown
    \/ Resume
    \/ ResponseOk
    \/ ResponseRetryable
    \/ ResponseNetworkError
    \/ ResponseFatal
    \/ Tick

SpecTenant == InitCache /\ [][NextTenant]_vars

----------------------------------------------------------------------------
(* One response body read in chunks by one parser *)

InitIdle ==
    /\ now = 0
    /\ managers = <<NullManager>>
    /\ refreshes = <<>>
    /\ proc = [c \in Callers |-> IdleProc(GLOBAL)]
    /\ microq = <<>>
    /\ client = [c \in Callers |-> NoClient]
    /\ cache = <<>>
    /\ reqs = <<>>

Quoted(chars) == <<Q>> \o chars \o <<Q>>
\* the JSON text {"key":value
Opened(key, valueText) == Pattern(key) \o valueText
\* the JSON text {"key":value}
EventText(key, valueText) == Opened(key, valueText) \o <<"}">>
Member(key, valueText) == <<",">> \o Quoted(key) \o <<":">> \o valueText

\* Response bodies: events with a two-byte character, with braces and an
\* escaped quote inside a string, framing bytes between events, repeated
\* content, tool events, and an incomplete last event
Bodies ==
    { EventText(K_content, Quoted(<<"h", "C3", "A9">>))
          \o EventText(K_content, Quoted(<<"b">>)),
      <<":", "x">> \o EventText(K_content, Quoted(<<"a", "}", BSL, Q, "{">>))
          \o <<"x">> \o EventText(K_usage, <<"1">>),
      EventText(K_content, Quoted(<<"a">>)) \o EventText(K_content, Quoted(<<"a">>))
          \o EventText(K_contextUsagePercentage, <<"5">>)
          \o EventText(K_followupPrompt, Quoted(<<"q">>)),
      Opened(K_name, Quoted(<<"f">>)) \o Member(K_toolUseId, Quoted(<<"t">>)) \o <<"}">>
          \o EventText(K_input, Quoted(<<"{", BSL, Q, "a", BSL, Q, ":", "1", "}">>))
          \o EventText(K_stop, <<"t", "r", "u", "e">>)
          \o Opened(K_content, Quoted(<<"b">>)) }

InitFeed ==
    /\ InitIdle
    /\ \E body \in Bodies : upstream = [text |-> body, pos |-> 0]
    /\ parser = NewParser
    /\ fed = <<>>
    /\ returned = NotReturned
    /\ InitNoStream
    /\ InitNoUsage
    /\ InitNoConv
    /\ InitNoDisk
    /\ InitNoResp

\* reader.read() hands over the next bytes of the body, cut anywhere, and
\* the stream loop feeds them to the parser
FeedChunk ==
    /\ upstream.pos < Len(upstream.text)
    /\ \E n \in 1..(Len(upstream.text) - upstream.pos) :
          LET chunk == SubSeq(upstream.text, upstream.pos + 1, upstream.pos + n)
              r == Feed(parser, ByteChunk(chunk))
          IN /\ upstream' = [upstream EXCEPT !.pos = @ + n]
             /\ parser' = r.parser
             /\ fed' = fed \o r.events
    /\ UNCHANGED <<authVars, returned, streamVars, pureVars>>

\* the end of the body: the stream loop asks for the tool calls
EndOfBody ==
    /\ upstream.pos = Len(upstream.text)
    /\ ~returned.called
    /\ LET r == GetToolCalls(parser)
       IN /\ parser' = r.parser
          /\ returned' = [called |-> TRUE, toolCalls |-> r.toolCalls]
    /\ UNCHANGED <<authVars, upstream, fed, streamVars, pureVars>>

NextFeed ==
    \/ FeedChunk
    \/ EndOfBody

SpecFeed == InitFeed /\ [][NextFeed]_vars

----------------------------------------------------------------------------
(* The tool events of one response, each read as one chunk *)

TrueText == <<"t", "r", "u", "e">>
\* the text {"name":"f" and its members ... }
ToolStart(name, members) == Opened(K_name, Quoted(name)) \o members \o <<"}">>
ObjectA == <<"{", Q, "a", Q, ":", "1", "}">>
ObjectB == <<"{", Q, "b", Q, ":", "2", "}">>
ArrayText == <<"[", "1", "]">>
ObjectNested == <<"{", Q, "a", Q, ":", "{", Q, "b", Q, ":", "2", "}", "}">>
ObjectNestedC == <<"{", Q, "a", Q, ":", "{", Q, "c", Q, ":", "3", "}", "}">>

\* tool_start events: with and without toolUseId, without input and with
\* a string, object, array, null and number input, with and without stop
ToolStartEvents ==
    { ToolStart(<<"f">>, Member(K_toolUseId, Quoted(<<"t">>))),
      ToolStart(<<"f">>, <<>>),
      ToolStart(<<"g">>, Member(K_toolUseId, Quoted(<<"t">>)) \o Member(K_input, ObjectA)),
      ToolStart(<<"f">>, Member(K_toolUseId, Quoted(<<"u">>)) \o Member(K_input, ArrayText)),
      ToolStart(<<"f">>, Member(K_toolUseId, Quoted(<<"u">>))
                             \o Member(K_input, Quoted(ArrayText))
                             \o Member(K_stop, TrueText)),
      ToolStart(<<"g">>, Member(K_input, Null.v)),
      ToolStart(<<"g">>, Member(K_input, <<"1">>) \o Member(K_stop, TrueText)) }

\* tool_input events: fragments of a JSON text, a whole JSON text, an
\* object, an array, a number, null
ToolInputEvents ==
    { EventText(K_input, Quoted(Escape(<<"{", Q, "a", Q, ":">>))),
      EventText(K_input, Quoted(<<"1", "}">>)),
      EventText(K_input, Quoted(ArrayText)),
      EventText(K_input, ObjectB),
      EventText(K_input, ArrayText),
      EventText(K_input, <<"1">>),
      EventText(K_input, Null.v) }

ToolStopEvents ==
    { EventText(K_stop, TrueText), EventText(K_stop, False.v) }

ToolEvents == ToolStartEvents \cup ToolInputEvents \cup ToolStopEvents

InitTools ==
    /\ InitIdle
    /\ upstream = NoUpstream
    /\ parser = NewParser
    /\ fed = <<>>
    /\ returned = NotReturned
    /\ InitNoStream
    /\ InitNoUsage
    /\ InitNoConv
    /\ InitNoDisk
    /\ InitNoResp

\* reader.read() hands over one tool event and the stream loop feeds it to
\* the parser
ToolEvent ==
    /\ ~returned.called
    /\ Len(parser.toolCalls) < MaxCalls
    /\ Len(parser.currentToolCall.arguments) < MaxArguments
    /\ \E e \in ToolEvents :
          /\ parser' = Feed(parser, ByteChunk(e)).parser
          /\ fed' = fed \o Feed(parser, ByteChunk(e)).events
    /\ UNCHANGED <<authVars, upstream, returned, streamVars, pureVars>>

NextTools ==
    \/ ToolEvent
    \/ EndOfBody

SpecTools == InitTools /\ [][NextTools]_vars

----------------------------------------------------------------------------
(* Tool calls whose input arrives as objects *)

\* tool_input events with the fragments of a JSON text
FragmentEvents ==
    { EventText(K_input, Quoted(Escape(<<"{", Q, "a", Q, ":">>))),
      EventText(K_input, Quoted(<<"1", "}">>)) }

\* tool_start events without input, with an object and with a nested object
ObjectStartEvents ==
    { ToolStart(<<"f">>, Member(K_toolUseId, Quoted(<<"t">>))),
      ToolStart(<<"g">>, Member(K_toolUseId, Quoted(<<"u">>)) \o Member(K_input, ObjectA)),
      ToolStart(<<"h">>, Member(K_toolUseId, Quoted(<<"n">>)) \o Member(K_input, ObjectNested)) }

\* tool_input events with an object, with a nested object and with the
\* fragments
ObjectInputEvents ==
    { EventText(K_input, ObjectB), EventText(K_input, ObjectNestedC) } \cup FragmentEvents

ObjectEvents == ObjectStartEvents \cup ObjectInputEvents \cup { EventText(K_stop, TrueText) }

\* reader.read() hands over one of these events and the stream loop feeds
\* it to the parser (a fragment is added to arguments of less than
\* MaxArguments characters only)
ObjectEvent ==
    /\ ~returned.called
    /\ Len(parser.toolCalls) < MaxFinalized
    /\ \E e \in ObjectEvents :
          /\ e \in FragmentEvents => Len(parser.currentToolCall.arguments) < MaxArguments
          /\ parser' = Feed(parser, ByteChunk(e)).parser
          /\ fed' = fed \o Feed(parser, ByteChunk(e)).events
    /\ UNCHANGED <<authVars, upstream, returned, streamVars, pureVars>>

NextObjects ==
    \/ ObjectEvent
    \/ EndOfBody

SpecObjects == InitTools /\ [][NextObjects]_vars

----------------------------------------------------------------------------
(* The tool calls a parser has finalized, deduplicated by getToolCalls() *)

ObjectAB == <<"{", Q, "a", Q, ":", "1", ",", Q, "b", Q, ":", "2", "}">>

\* finalized calls: two ids (one given by the stream, one generated), two
\* names, arguments {} and objects of two lengths
FinalizedCalls ==
    { ToolCall(id, name, arguments) :
        id \in {<<"t">>, GeneratedId(0)}, name \in {<<"f">>, <<"g">>},
        arguments \in {EmptyObjectText, ObjectA, ObjectB, ObjectAB} }

InitDedup ==
    /\ InitIdle
    /\ upstream = NoUpstream
    /\ \E calls \in UNION { [1..n -> FinalizedCalls] : n \in 0..(MaxCalls + 1) } :
          parser = [NewParser EXCEPT !.toolCalls = calls]
    /\ fed = <<>>
    /\ returned = NotReturned
    /\ InitNoStream
    /\ InitNoUsage
    /\ InitNoConv
    /\ InitNoDisk
    /\ InitNoResp

NextDedup == EndOfBody

SpecDedup == InitDedup /\ [][NextDedup]_vars

----------------------------------------------------------------------------
(* The content events of one response, each read as one chunk *)

\* content events with three strings and with the empty string, a content
\* event that carries a followupPrompt too, a followupPrompt event, a usage
\* event and a tool_start event
StreamedEvents ==
    { EventText(K_content, Quoted(<<"a">>)),
      EventText(K_content, Quoted(<<"b">>)),
      EventText(K_content, Quoted(<<"a", "b">>)),
      EventText(K_content, Quoted(<<>>)),
      Opened(K_content, Quoted(<<"b">>)) \o Member(K_followupPrompt, Quoted(<<"q">>)) \o <<"}">>,
      EventText(K_followupPrompt, Quoted(<<"q">>)),
      EventText(K_usage, <<"1">>),
      ToolStart(<<"f">>, Member(K_toolUseId, Quoted(<<"t">>)) \o Member(K_stop, TrueText)) }

\* reader.read() hands over one event and the stream loop feeds it to the
\* parser, until MaxChunks events were returned by feed()
StreamedEvent ==
    /\ ~returned.called
    /\ Len(fed) < MaxChunks
    /\ Len(parser.toolCalls) < MaxCalls
    /\ \E e \in StreamedEvents :
          /\ parser' = Feed(parser, ByteChunk(e)).parser
          /\ fed' = fed \o Feed(parser, ByteChunk(e)).events
    /\ UNCHANGED <<authVars, upstream, returned, streamVars, pureVars>>

NextContent ==
    \/ StreamedEvent
    \/ EndOfBody

SpecContent == InitTools /\ [][NextContent]_vars

----------------------------------------------------------------------------
(* One call of calculateUsageTokens *)

Chars(n) == [i \in 1..n |-> "a"]
Message(content) == Obj(<< <<K_content, content>> >>)
TextBlock(chars) == Obj(<< <<K_text, Str(chars)>> >>)

\* requestMessages: absent, none, string contents, an array of blocks (one
\* without text), a message without content
RequestMessages ==
    { Undefined,
      Arr(<<>>),
      Arr(<<Message(Str(Chars(5))), Message(Str(<<>>))>>),
      Arr(<<Message(Arr(<<TextBlock(Chars(8)), Obj(<<>>), TextBlock(Chars(1))>>)),
            Message(Null)>>) }

\* requestTools: absent, a tool with name, description and parameters, a
\* tool with a name only and an entry without function
RequestTools ==
    { Undefined,
      Arr(<<Obj(<< <<K_function,
                     Obj(<< <<K_name, Str(Chars(3))>>,
                            <<K_description, Str(Chars(6))>>,
                            <<K_parameters, Obj(<< <<K_text, Num(<<"1">>)>> >>)>> >>)>> >>)>>),
      Arr(<<Obj(<< <<K_function, Obj(<< <<K_name, Str(Chars(4))>> >>)>> >>),
            Obj(<<>>)>>) }

\* contextUsagePercentage: null, 0, 25, 50, 100, and the fractions
\* 100 / 2^17 and 100 / 2^18 of a percent
Percents ==
    { NoPercent, Percent(0, 1), Percent(25, 1), Percent(50, 1), Percent(100, 1),
      Percent(25, 32768), Percent(25, 65536) }

MaxInputTokens == {DEFAULT_MAX_INPUT_TOKENS, 8}

InitUsage ==
    /\ InitIdle
    /\ InitNoParser
    /\ InitNoStream
    /\ InitNoConv
    /\ InitNoDisk
    /\ InitNoResp
    /\ \E n \in 0..MaxContent, pct \in Percents, maxInputTokens \in MaxInputTokens,
          requestMessages \in RequestMessages, requestTools \in RequestTools :
          usage = [pc |-> "called",
                   fullContent |-> Chars(n),
                   contextUsagePercentage |-> pct,
                   maxInputTokens |-> maxInputTokens,
                   requestMessages |-> requestMessages,
                   requestTools |-> requestTools]

\* the call returns
ReturnUsage ==
    /\ usage.pc = "called"
    /\ usage' = [pc |-> "returned",
                 fullContent |-> usage.fullContent,
                 contextUsagePercentage |-> usage.contextUsagePercentage,
                 maxInputTokens |-> usage.maxInputTokens,
                 requestMessages |-> usage.requestMessages,
                 requestTools |-> usage.requestTools,
                 result |-> CalculateUsageTokens(usage.fullContent,
                                                 usage.contextUsagePercentage,
                                                 usage.maxInputTokens,
                                                 usage.requestMessages,
                                                 usage.requestTools)]
    /\ UNCHANGED <<authVars, parserVars, streamVars, conv, disk, resp>>

NextUsage == ReturnUsage

SpecUsage == InitUsage /\ [][NextUsage]_vars

----------------------------------------------------------------------------
(* One streamed response: the route iterates streamKiroToOpenAI,
   streamKiroToAnthropic or streamKiroToGemini over a response, or a caller
   iterates streamKiroWithRetry *)

\* the chunks reader.read() can hand over: two content events, a whole
\* tool call with input, a tool call without input that is left open, a
\* context usage and a metering event
StreamChunks ==
    { EventText(K_content, Quoted(<<"a">>)) \o EventText(K_content, Quoted(<<"b">>)),
      ToolStart(<<"f">>, Member(K_toolUseId, Quoted(<<"t">>)) \o Member(K_input, ObjectA)
                             \o Member(K_stop, TrueText)),
      ToolStart(<<"g">>, <<>>),
      EventText(K_contextUsagePercentage, <<"5", "0">>) \o EventText(K_usage, <<"1">>) }

Dialects == {"openai", "anthropic", "gemini"}

InitStream ==
    /\ InitIdle
    /\ upstream = NoUpstream
    /\ parser = NewParser
    /\ fed = <<>>
    /\ returned = NotReturned
    /\ \E dialect \in Dialects, retry \in BOOLEAN :
          /\ retry => dialect = "openai"
          /\ gen = Generator(dialect, retry, 0, 0, 0)
    /\ frames = <<>>
    /\ InitNoUsage
    /\ InitNoConv
    /\ InitNoDisk
    /\ InitNoResp

\* what the generator yields before its first read
FirstFrames(dialect, hasBody) ==
    CASE dialect = "openai" -> IF hasBody THEN <<>> ELSE <<DoneFrame>>
      [] dialect = "anthropic" ->
            <<MessageStart(PreCalculatedInputTokens)>>
            \o (IF hasBody THEN <<>> ELSE <<MessageStop>>)
      [] OTHER -> IF hasBody THEN <<>> ELSE <<EmptyResponse>>

\* The generator starts on a response, with a body or without one:
\* streamKiroWithRetry awaits makeRequest() for it, a route has it already.
StartStream ==
    /\ gen.pc = "request"
    /\ \E hasBody \in BOOLEAN :
          /\ gen' = [Generator(gen.dialect, gen.retry, gen.attempt,
                               gen.requests + (IF gen.retry THEN 1 ELSE 0), gen.sleeps)
                        EXCEPT !.reader = hasBody,
                               !.pc = CASE ~hasBody -> "done"
                                        [] gen.dialect = "openai" -> "first"
                                        [] OTHER -> "read"]
          /\ frames' = frames \o FirstFrames(gen.dialect, hasBody)
    /\ upstream' = NoUpstream
    /\ parser' = NewParser
    /\ fed' = <<>>
    /\ returned' = NotReturned
    /\ UNCHANGED <<authVars, pureVars>>

\* makeRequest() of streamKiroWithRetry rejects: the error is rethrown
RequestFails ==
    /\ gen.pc = "request"
    /\ gen.retry
    /\ gen' = [gen EXCEPT !.pc = "failed", !.requests = @ + 1, !.error = "request"]
    /\ UNCHANGED <<authVars, parserVars, frames, pureVars>>

\* The body delivers a chunk.  A read that a timeout abandoned is still the
\* first read request of the reader and takes the chunk; otherwise the
\* pending read of the generator takes it, feeds the parser and yields the
\* frames of its events.
ReadValue ==
    /\ gen.pc \in {"first", "read"}
    /\ gen.chunks < MaxChunks
    /\ \E chunk \in StreamChunks :
          /\ upstream' = [text |-> upstream.text \o chunk,
                          pos |-> IF gen.abandoned > 0 THEN upstream.pos
                                  ELSE upstream.pos + Len(chunk)]
          /\ IF gen.abandoned > 0
             THEN /\ gen' = [gen EXCEPT !.abandoned = @ - 1, !.chunks = @ + 1]
                  /\ UNCHANGED <<parser, fed, frames>>
             ELSE /\ parser' = Feed(parser, ByteChunk(chunk)).parser
                  /\ fed' = fed \o Feed(parser, ByteChunk(chunk)).events
                  /\ gen' = ForEvents(Yielded([gen EXCEPT !.pc = "read",
                                                          !.chunks = @ + 1,
                                                          !.consecutiveTimeouts = 0],
                                              frames),
                                      Feed(parser, ByteChunk(chunk)).events).gen
                  /\ frames' = ForEvents(Yielded(gen, frames),
                                         Feed(parser, ByteChunk(chunk)).events).frames
    /\ UNCHANGED <<authVars, returned, pureVars>>

\* the frames after the end of the body
LastFrames(g, toolCalls) ==
    IF g.pc = "first" THEN <<DoneFrame>>
    ELSE EndFrames(g, AllToolCalls(toolCalls, Join(g.contentParts)))

\* The body ends: every pending read resolves with done.  The OpenAI
\* generator whose first read is done yields [DONE] only; otherwise the
\* generator leaves the loop, asks for the tool calls and yields its last
\* frames.
ReadDone ==
    /\ gen.pc \in {"first", "read"}
    /\ gen' = [gen EXCEPT !.pc = "done", !.consecutiveTimeouts = 0, !.abandoned = 0]
    /\ frames' = frames \o LastFrames(gen, GetToolCalls(parser).toolCalls)
    /\ IF gen.pc = "first"
       THEN UNCHANGED <<parser, returned>>
       ELSE /\ parser' = GetToolCalls(parser).parser
            /\ returned' = [called |-> TRUE, toolCalls |-> GetToolCalls(parser).toolCalls]
    /\ UNCHANGED <<authVars, upstream, fed, pureVars>>

\* (variant: streamKiroWithRetry retries after any error)
ReadErrorRetried ==
    /\ gen.pc \in {"first", "read"}
    /\ gen' = [gen EXCEPT !.pc = CASE gen.dialect = "anthropic" -> "done"
                                   [] gen.retry /\ gen.attempt < STREAM_MAX_RETRIES - 1
                                        -> "sleep"
                                   [] OTHER -> "failed",
                          !.error = "read", !.abandoned = 0]
    /\ frames' = IF gen.dialect = "anthropic" THEN Append(frames, ErrorFrame)
                 ELSE frames
    /\ UNCHANGED <<authVars, parserVars, pureVars>>

\* The body fails: the pending read rejects.  The OpenAI and the Gemini
\* generator log and rethrow (streamKiroWithRetry rethrows too, and the
\* catch of the route only logs); the Anthropic generator yields an error
\* frame and returns.
ReadError ==
    /\ gen.pc \in {"first", "read"}
    /\ gen' = [gen EXCEPT !.pc = IF gen.dialect = "anthropic" THEN "done" ELSE "failed",
                          !.error = "read", !.abandoned = 0]
    /\ frames' = IF gen.dialect = "anthropic" THEN Append(frames, ErrorFrame)
                 ELSE frames
    /\ UNCHANGED <<authVars, parserVars, pureVars>>

\* The timer of readChunkWithTimeout fires before the first chunk:
\* FirstTokenTimeoutError.  streamKiroWithRetry sleeps and tries again
\* unless this was its last attempt; streamKiroToOpenAI rethrows.
FirstTokenTimeout ==
    /\ gen.pc = "first"
    /\ gen' = [gen EXCEPT !.pc = IF gen.retry /\ gen.attempt < STREAM_MAX_RETRIES - 1
                                 THEN "sleep" ELSE "failed",
                          !.error = "first_token_timeout"]
    /\ UNCHANGED <<authVars, parserVars, frames, pureVars>>

\* the sleep of streamKiroWithRetry ends: the next attempt
NextAttempt ==
    /\ gen.pc = "sleep"
    /\ gen' = [gen EXCEPT !.pc = "request", !.attempt = @ + 1,
                          !.sleeps = @ + STREAM_RETRY_DELAY, !.error = "none"]
    /\ UNCHANGED <<authVars, parserVars, frames, pureVars>>

\* (variant: the generator gives up at the third timeout in a row)
ReadTimeoutGivingUpEarly ==
    /\ gen.pc = "read"
    /\ gen.dialect = "openai"
    /\ gen' = IF gen.consecutiveTimeouts + 1 < MAX_CONSECUTIVE_TIMEOUTS
              THEN [gen EXCEPT !.consecutiveTimeouts = @ + 1, !.abandoned = @ + 1]
              ELSE [gen EXCEPT !.consecutiveTimeouts = @ + 1, !.pc = "failed",
                               !.error = "stream_timeout"]
    /\ UNCHANGED <<authVars, parserVars, frames, pureVars>>

\* The timer of readChunkWithTimeout fires in the loop: the read stays
\* pending in the reader; the generator reads again up to
\* maxConsecutiveTimeouts times in a row, then throws.
ReadTimeout ==
    /\ gen.pc = "read"
    /\ gen.dialect = "openai"
    /\ gen' = IF gen.consecutiveTimeouts + 1 <= MAX_CONSECUTIVE_TIMEOUTS
              THEN [gen EXCEPT !.consecutiveTimeouts = @ + 1, !.abandoned = @ + 1]
              ELSE [gen EXCEPT !.consecutiveTimeouts = @ + 1, !.pc = "failed",
                               !.error = "stream_timeout"]
    /\ UNCHANGED <<authVars, parserVars, frames, pureVars>>

\* The client of a route disconnects while the generator waits for a read.
\* The stream helper marks its writer as aborted; the callback of the route
\* registers no onAbort handler, does not look at streamWriter.aborted, and
\* no signal goes to the reader: streamWriter.write() of an aborted stream
\* resolves without writing, so the for-await loop goes on.
ClientDisconnects ==
    /\ gen.pc \in {"first", "read"}
    /\ ~gen.retry
    /\ ~gen.aborted
    /\ gen' = [gen EXCEPT !.aborted = TRUE]
    /\ UNCHANGED <<authVars, parserVars, frames, pureVars>>

NextStream ==
    \/ ClientDisconnects
    \/ StartStream
    \/ RequestFails
    \/ ReadValue
    \/ ReadDone
    \/ ReadError
    \/ FirstTokenTimeout
    \/ NextAttempt
    \/ ReadTimeout

SpecStream == InitStream /\ [][NextStream]_vars

----------------------------------------------------------------------------
(* One call of buildKiroPayload *)

ToolCallsOf(id) ==
    Arr(<<Obj(<< <<K_id, Str(id)>>,
                 <<K_function, Obj(<< <<K_name, Str(<<"f">>)>>,
                                      <<K_arguments, Str(ObjectA)>> >>)>> >>)>>)

\* the messages of a request: system messages, user messages with a
\* string, an empty string and an array of a text block and a tool_result
\* block, assistant messages with a string, with an array of text blocks
\* and with tool calls and no content, tool messages with and without text
ChatMessages ==
    { ChatMessage("system", Str(<<"s">>), Undefined, Undefined),
      ChatMessage("user", Str(<<"u">>), Undefined, Undefined),
      ChatMessage("user", Str(<<>>), Undefined, Undefined),
      ChatMessage("user",
                  Arr(<<TextItem(<<"v">>),
                        Obj(<< <<K_type, T_tool_result>>, <<K_tool_use_id, Str(<<"w">>)>>,
                               <<K_content, Str(<<"r">>)>> >>)>>),
                  Undefined, Undefined),
      ChatMessage("assistant", Str(<<"a">>), Undefined, Undefined),
      ChatMessage("assistant", Arr(<<TextItem(<<"b">>)>>), Undefined, Undefined),
      ChatMessage("assistant", Null, Undefined, ToolCallsOf(<<"t">>)),
      ChatMessage("tool", Str(<<"r">>), Str(<<"t">>), Undefined),
      ChatMessage("tool", Null, Str(<<"x">>), Undefined) }

Requests == UNION { [1..n -> ChatMessages] : n \in 0..MaxMessages }

InitConv ==
    /\ InitIdle
    /\ InitNoParser
    /\ InitNoStream
    /\ InitNoUsage
    /\ InitNoDisk
    /\ InitNoResp
    /\ \E messages \in Requests : conv = [pc |-> "called", messages |-> messages]

\* the call returns or throws
ReturnPayload ==
    /\ conv.pc = "called"
    /\ conv' = [pc |-> "returned",
                messages |-> conv.messages,
                mergedMessages |-> MergeAdjacentMessages(NonSystemMessages(conv.messages)),
                payload |-> BuildKiroPayload(conv.messages)]
    /\ UNCHANGED <<authVars, parserVars, streamVars, usage, disk, resp>>

NextConv == ReturnPayload

SpecConv == InitConv /\ [][NextConv]_vars

----------------------------------------------------------------------------
(* One _saveCredentialsToFile() on the credentials file, and a crash *)

\* the credentials file before the save: absent, a file with the two
\* tokens, a file with another member too, a file that is not JSON
AbsentFile == [exists |-> FALSE, content |-> <<>>]
FileOf(content) == [exists |-> TRUE, content |-> content]
CredentialFiles ==
    { AbsentFile,
      FileOf(EventText(K_refreshToken, Quoted(<<"r">>) \o Member(K_accessToken, Quoted(<<"a">>)))),
      FileOf(EventText(K_name, Quoted(<<"n">>) \o Member(K_refreshToken, Quoted(<<"r">>)))),
      FileOf(<<"{">>) }

\* the fields of the manager after a refresh
SavedManagers ==
    [accessToken : {Str(<<"b">>)},
     refreshToken : {Str(<<"r">>), Str(<<"s">>)},
     expiresAt : {Null, Str(<<"2", "0", "3", "0">>)},
     profileArn : {Null, Str(<<"p">>)}]

InitSave ==
    /\ InitIdle
    /\ InitNoParser
    /\ InitNoStream
    /\ InitNoUsage
    /\ InitNoConv
    /\ InitNoResp
    /\ \E file \in CredentialFiles, m \in SavedManagers :
          disk = [pc |-> "called", file |-> file, old |-> file, manager |-> m,
                  data |-> <<>>]

\* the existing file is read and parsed
ExistingData(file) ==
    IF file.exists THEN JSONParse(file.content) ELSE Parsed(Obj(<<>>), <<>>)

\* The function runs up to the open of writeFileSync, which truncates the
\* file (or creates it); a file that does not parse makes it log and
\* return.
SaveOpen ==
    /\ disk.pc = "called"
    /\ disk' = IF ExistingData(disk.file).ok
               THEN [disk EXCEPT !.pc = "writing",
                                 !.data = SavedText(ExistingData(disk.file).val,
                                                    disk.manager),
                                 !.file = FileOf(<<>>)]
               ELSE [disk EXCEPT !.pc = "returned"]
    /\ UNCHANGED <<authVars, parserVars, streamVars, usage, conv, resp>>

\* writeFileSync writes the next bytes of the text, all that is left or
\* less; after the last byte the function returns
SaveWrite ==
    /\ disk.pc = "writing"
    /\ \E n \in 1..(Len(disk.data) - Len(disk.file.content)) :
          disk' = [disk EXCEPT
                      !.file = FileOf(SubSeq(disk.data, 1, Len(disk.file.content) + n)),
                      !.pc = IF Len(disk.file.content) + n = Len(disk.data)
                             THEN "returned" ELSE "writing"]
    /\ UNCHANGED <<authVars, parserVars, streamVars, usage, conv, resp>>

\* the process crashes during the save
Crash ==
    /\ disk.pc \in {"called", "writing"}
    /\ disk' = [disk EXCEPT !.pc = "crashed"]
    /\ UNCHANGED <<authVars, parserVars, streamVars, usage, conv, resp>>

NextSave ==
    \/ SaveOpen
    \/ SaveWrite
    \/ Crash

SpecSave == InitSave /\ [][NextSave]_vars

----------------------------------------------------------------------------
(* One OpenAI response converted to Anthropic's format and back *)

NullText == <<"n", "u", "l", "l">>

ToolCallOf(id, name, arguments) ==
    Obj(<< <<K_id, id>>,
           <<K_type, Str(K_function)>>,
           <<K_function, Obj(<< <<K_name, Str(name)>>, <<K_arguments, Str(arguments)>> >>)>> >>)

\* tool calls with an object, a nested object, no arguments, arguments
\* that do not parse, the arguments null, and one without id
ResponseToolCalls ==
    { ToolCallOf(Str(<<"t">>), <<"f">>, ObjectA),
      ToolCallOf(Str(<<"u">>), <<"g">>, ObjectNested),
      ToolCallOf(Str(<<"v">>), <<"g">>, <<>>),
      ToolCallOf(Undefined, <<"f">>, <<"{">>),
      ToolCallOf(Str(<<"w">>), <<"f">>, NullText) }

\* message.tool_calls: absent, or up to MaxCalls calls
ResponseToolCallLists ==
    {Undefined} \cup {Arr(tcs) : tcs \in UNION { [1..n -> ResponseToolCalls] : n \in 0..MaxCalls }}

ResponseContents == {Null, Str(<<>>), Str(<<"h", "i">>)}

FinishReasons ==
    {Undefined, Str(R_stop), Str(R_tool_calls), Str(R_length), Str(R_content_filter)}

\* a response with or without id and usage
OpenAIResponse(whole, content, toolCalls, finishReason) ==
    Obj((IF whole THEN << <<K_id, Str(<<"c", "h", "a", "t", "c", "m", "p", "l", "-", "1">>)>> >> ELSE <<>>)
        \o << <<K_choices,
                Arr(<<Obj(<< <<K_message,
                               Obj(<< <<K_role, Str(<<"a", "s", "s", "i", "s", "t", "a", "n", "t">>)>>,
                                      <<K_content, content>> >>
                                   \o (IF toolCalls = Undefined THEN <<>>
                                       ELSE << <<K_tool_calls, toolCalls>> >>))>> >>
                             \o (IF finishReason = Undefined THEN <<>>
                                 ELSE << <<K_finish_reason, finishReason>> >>))>>)>> >>
        \o (IF whole
            THEN << <<K_usage, Obj(<< <<K_prompt_tokens, Num(<<"3">>)>>,
                                      <<K_completion_tokens, Num(<<"8">>)>>,
                                      <<K_total_tokens, Num(<<"1", "1">>)>> >>)>> >>
            ELSE <<>>))

OpenAIResponses ==
    { OpenAIResponse(whole, content, toolCalls, finishReason) :
        whole \in BOOLEAN, content \in ResponseContents,
        toolCalls \in ResponseToolCallLists, finishReason \in FinishReasons }

\* the values of Date.now()
Clocks == {<<"7">>, <<"8">>}
ModelName == Str(<<"m">>)

InitResp ==
    /\ InitIdle
    /\ InitNoParser
    /\ InitNoStream
    /\ InitNoUsage
    /\ InitNoConv
    /\ InitNoDisk
    /\ \E r \in OpenAIResponses : resp = [pc |-> "called", openai |-> r]

ToAnthropic ==
    /\ resp.pc = "called"
    /\ \E clock \in Clocks :
         resp' = [pc |-> "anthropic",
                  openai |-> resp.openai,
                  anthropic |-> ConvertOpenAIResponseToAnthropic(resp.openai, ModelName, clock)]
    /\ UNCHANGED <<authVars, parserVars, streamVars, usage, conv, disk>>

ToOpenAI ==
    /\ resp.pc = "anthropic"
    /\ \E clock \in Clocks :
         resp' = [pc |-> "returned",
                  openai |-> resp.openai,
                  anthropic |-> resp.anthropic,
                  back |-> ConvertAnthropicResponseToOpenAI(resp.anthropic, ModelName, clock)]
    /\ UNCHANGED <<authVars, parserVars, streamVars, usage, conv, disk>>

NextResp == ToAnthropic \/ ToOpenAI

SpecResp == InitResp /\ [][NextResp]_vars

----------------------------------------------------------------------------
(* streaming.ts: collectOpenAIResponse and collectAnthropicResponse *)

\* contentParts of collectOpenAIResponse: delta.content of the chunks
\* whose delta has a truthy content
RECURSIVE DeltaContents(_)
DeltaContents(fs) ==
    IF fs = <<>> THEN <<>>
    ELSE (IF Head(fs).type = "chunk" /\ IsTruthy(Head(fs).content)
          THEN <<Head(fs).content>> ELSE <<>>)
         \o DeltaContents(Tail(fs))
\* toolCalls.push(...delta.tool_calls)
RECURSIVE DeltaToolCalls(_)
DeltaToolCalls(fs) ==
    IF fs = <<>> THEN <<>>
    ELSE (IF Head(fs).type = "tool_calls" THEN Head(fs).tool_calls ELSE <<>>)
         \o DeltaToolCalls(Tail(fs))

\* collectOpenAIResponse(response): the message and the finish reason made
\* of the frames streamKiroToOpenAI yields for the response
CollectOpenAIResponse(fs) ==
    LET toolCalls == DeltaToolCalls(fs)
    IN [content |-> Join(DeltaContents(fs)),
        tool_calls |-> [i \in 1..Len(toolCalls) |->
                           [id |-> toolCalls[i].id, name |-> toolCalls[i].name,
                            arguments |-> IF toolCalls[i].arguments = <<>>
                                          THEN EmptyObjectText
                                          ELSE toolCalls[i].arguments]],
        finish_reason |-> IF Len(toolCalls) > 0 THEN "tool_calls" ELSE "stop"]

\* collectAnthropicResponse(response): the content blocks and the stop
\* reason, from the content events and the tool calls of its own parser
CollectAnthropicResponse(hasBody, contentParts, toolCalls) ==
    LET fullContent == Join(contentParts)
        allToolCalls == AllToolCalls(toolCalls, fullContent)
    IN IF ~hasBody THEN [content |-> <<>>, stop_reason |-> "end_turn"]
       ELSE [content |->
                 (IF fullContent # <<>>
                  THEN <<[type |-> "text", text |-> fullContent]>> ELSE <<>>)
                 \o [i \in 1..Len(allToolCalls) |->
                        [type |-> "tool_use", id |-> allToolCalls[i].id,
                         name |-> allToolCalls[i].name,
                         input |-> ToolInputOf(ToolArgsStr(allToolCalls[i]))]],
             stop_reason |-> IF Len(allToolCalls) > 0 THEN "tool_use" ELSE "end_turn"]

----------------------------------------------------------------------------
(* converters.ts: the tools of a request *)

K_toolSpecification == <<"t", "o", "o", "l", "S", "p", "e", "c", "i", "f", "i", "c", "a", "t", "i", "o", "n">>
K_inputSchema == <<"i", "n", "p", "u", "t", "S", "c", "h", "e", "m", "a">>
K_json == <<"j", "s", "o", "n">>
K_input_schema == <<"i", "n", "p", "u", "t", "_", "s", "c", "h", "e", "m", "a">>
K_schema == <<"s", "c", "h", "e", "m", "a">>
K_properties == <<"p", "r", "o", "p", "e", "r", "t", "i", "e", "s">>
T_function == Str(K_function)
T_web_search == {Str(<<"w", "e", "b", "_", "s", "e", "a", "r", "c", "h">>),
                 Str(<<"w", "e", "b", "s", "e", "a", "r", "c", "h">>)}

\* { type: "object", properties: {} }
DefaultSchema ==
    Obj(<< <<K_type, Str(<<"o", "b", "j", "e", "c", "t">>)>>, <<K_properties, Obj(<<>>)>> >>)

KiroToolSpec(name, description, schema) ==
    Obj(<< <<K_toolSpecification,
             Obj(<< <<K_name, name>>,
                    <<K_description, description>>,
                    <<K_inputSchema, Obj(<< <<K_json, schema>> >>)>> >>)>> >>)

\* getToolName(tool)
GetToolName(tool) ==
    IF IsTruthy(Get(tool, K_function)) /\ TypeofObject(Get(tool, K_function))
    THEN Or(Get(Get(tool, K_function), K_name), Null)
    ELSE IF IsTruthy(Get(tool, K_toolSpecification)) /\ TypeofObject(Get(tool, K_toolSpecification))
    THEN Or(Get(Get(tool, K_toolSpecification), K_name), Null)
    ELSE IF IsTruthy(Get(tool, K_name)) THEN Get(tool, K_name)
    ELSE IF IsTruthy(Get(tool, K_id)) THEN Get(tool, K_id)
    ELSE Null

\* convertSingleToolToKiro(tool): the seven formats in the order of the code
ConvertSingleToolToKiro(tool) ==
    LET function == Get(tool, K_function)
        description == Or(Get(tool, K_description), Str(<<>>))
    IN IF IsTruthy(function) /\ TypeofObject(function)
       THEN KiroToolSpec(Get(function, K_name),
                         Or(Get(function, K_description), Str(<<>>)),
                         Or(Get(function, K_parameters), DefaultSchema))
       ELSE IF IsTruthy(Get(tool, K_toolSpecification)) /\ TypeofObject(Get(tool, K_toolSpecification))
       THEN tool
       ELSE IF IsTruthy(Get(tool, K_name))
               /\ (IsTruthy(Get(tool, K_input_schema)) \/ IsTruthy(Get(tool, K_schema)))
       THEN KiroToolSpec(Get(tool, K_name), description,
                         Or(Get(tool, K_input_schema), Get(tool, K_schema)))
       ELSE IF IsTruthy(Get(tool, K_name)) /\ IsTruthy(Get(tool, K_parameters))
       THEN KiroToolSpec(Get(tool, K_name), description, Get(tool, K_parameters))
       ELSE IF IsTruthy(Get(tool, K_id)) /\ IsTruthy(Get(tool, K_parameters))
       THEN KiroToolSpec(Get(tool, K_id), description, Get(tool, K_parameters))
       ELSE IF IsTruthy(Get(tool, K_id)) /\ IsTruthy(Get(tool, K_schema))
       THEN KiroToolSpec(Get(tool, K_id), description, Get(tool, K_schema))
       ELSE IF IsTruthy(Get(tool, K_name))
       THEN KiroToolSpec(Get(tool, K_name), description, DefaultSchema)
       ELSE Null

\* convertToKiroTools(tools): the converted tools, in order, without the
\* web search tools and the tools of an unknown format
RECURSIVE ConvertItems(_)
ConvertItems(items) ==
    IF items = <<>> THEN <<>>
    ELSE LET tool == Head(items)
             converted == ConvertSingleToolToKiro(tool)
         IN (IF ~IsTruthy(tool) \/ ~TypeofObject(tool) THEN <<>>
             ELSE IF GetToolName(tool) \in T_web_search THEN <<>>
             ELSE IF IsTruthy(converted) THEN <<converted>>
             ELSE <<>>)
            \o ConvertItems(Tail(items))
ConvertToKiroTools(tools) ==
    IF ~IsTruthy(tools) \/ Len(tools.v) = 0 THEN <<>> ELSE ConvertItems(tools.v)

\* `[Full documentation in system prompt under '## Tool: ${toolName}']`
ReferenceDescription(toolName) ==
    <<"[", "F", "u", "l", "l", " ", "d", "o", "c", "u", "m", "e", "n", "t",
      "a", "t", "i", "o", "n", " ", "i", "n", " ", "s", "y", "s", "t", "e",
      "m", " ", "p", "r", "o", "m", "p", "t", " ", "u", "n", "d", "e", "r",
      " ", "'", "#", "#", " ", "T", "o", "o", "l", ":", " ">>
    \o toolName \o <<"'", "]">>
\* `## Tool: ${toolName}\n\n${description}`
ToolDoc(toolName, description) ==
    <<"#", "#", " ", "T", "o", "o", "l", ":", " ">>
    \o toolName \o <<LF, LF>> \o description
DocumentationHeader ==
    <<LF, LF, "-", "-", "-", LF, "#", " ", "T", "o", "o", "l", " ", "D", "o",
      "c", "u", "m", "e", "n", "t", "a", "t", "i", "o", "n", LF, "T", "h",
      "e", " ", "f", "o", "l", "l", "o", "w", "i", "n", "g", " ", "t", "o",
      "o", "l", "s", " ", "h", "a", "v", "e", " ", "d", "e", "t", "a", "i",
      "l", "e", "d", " ", "d", "o", "c", "u", "m", "e", "n", "t", "a", "t",
      "i", "o", "n", " ", "t", "h", "a", "t", " ", "c", "o", "u", "l", "d",
      "n", "'", "t", " ", "f", "i", "t", " ", "i", "n", " ", "t", "h", "e",
      " ", "t", "o", "o", "l", " ", "d", "e", "f", "i", "n", "i", "t", "i",
      "o", "n", ".", LF, LF>>
DocumentationSeparator == <<LF, LF, "-", "-", "-", LF, LF>>

\* toolDocParts.join("\n\n---\n\n")
RECURSIVE JoinDocs(_)
JoinDocs(parts) ==
    IF Len(parts) = 1 THEN parts[1]
    ELSE parts[1] \o DocumentationSeparator \o JoinDocs(Tail(parts))

\* tool.function.description || "" of a tool of type function
FunctionDescription(tool) ==
    ToStr(Or(Get(Get(tool, K_function), K_description), Str(<<>>)))
IsLong(tool, limit) ==
    Get(tool, K_type) = T_function /\ Len(FunctionDescription(tool)) > limit

\* the tool the loop pushes for one tool of the request
ProcessedTool(tool, limit) ==
    IF ~IsLong(tool, limit) THEN tool
    ELSE Obj(<< <<K_type, T_function>>,
                <<K_function,
                  Obj(<< <<K_name, Get(Get(tool, K_function), K_name)>>,
                         <<K_description,
                           Str(ReferenceDescription(ToStr(Get(Get(tool, K_function), K_name))))>>,
                         <<K_parameters, Get(Get(tool, K_function), K_parameters)>> >>)>> >>)

RECURSIVE ToolDocParts(_, _)
ToolDocParts(items, limit) ==
    IF items = <<>> THEN <<>>
    ELSE (IF IsLong(Head(items), limit)
          THEN <<ToolDoc(ToStr(Get(Get(Head(items), K_function), K_name)),
                         FunctionDescription(Head(items)))>>
          ELSE <<>>)
         \o ToolDocParts(Tail(items), limit)

\* processToolsWithLongDescriptions(tools) under config.toolDescriptionMaxLength
\* = limit (every tool of type function has the member function)
ProcessToolsWithLongDescriptions(tools, limit) ==
    IF ~IsTruthy(tools) \/ Len(tools.v) = 0
    THEN [tools |-> Null, documentation |-> <<>>]
    ELSE IF limit <= 0
    THEN [tools |-> tools, documentation |-> <<>>]
    ELSE LET parts == ToolDocParts(tools.v, limit)
         IN [tools |-> Arr([i \in 1..Len(tools.v) |-> ProcessedTool(tools.v[i], limit)]),
             documentation |->
                 IF parts = <<>> THEN <<>> ELSE DocumentationHeader \o JoinDocs(parts)]

\* the system prompt of buildKiroPayload after the tool documentation
WithToolDocumentation(systemPrompt, toolDocumentation) ==
    IF toolDocumentation = <<>> THEN systemPrompt
    ELSE IF systemPrompt # <<>> THEN systemPrompt \o toolDocumentation
    ELSE Trim(toolDocumentation)

----------------------------------------------------------------------------
(* buildKiroPayload on the tools of a request: what becomes of the
   descriptions *)

\* a tool in each format the request schema accepts and convertToKiroTools
\* converts: OpenAI, Kiro, Anthropic, flat, id with parameters, id with
\* schema, name only
ToolFormats ==
    {"openai", "kiro", "anthropic", "flat", "idParameters", "idSchema", "nameOnly"}
ToolOf(format, name, description) ==
    CASE format = "openai" ->
           Obj(<< <<K_type, T_function>>,
                  <<K_function, Obj(<< <<K_name, Str(name)>>,
                                       <<K_description, description>>,
                                       <<K_parameters, DefaultSchema>> >>)>> >>)
      [] format = "kiro" -> KiroToolSpec(Str(name), description, DefaultSchema)
      [] format = "anthropic" ->
           Obj(<< <<K_name, Str(name)>>, <<K_description, description>>,
                  <<K_input_schema, DefaultSchema>> >>)
      [] format = "flat" ->
           Obj(<< <<K_name, Str(name)>>, <<K_description, description>>,
                  <<K_parameters, DefaultSchema>> >>)
      [] format = "idParameters" ->
           Obj(<< <<K_id, Str(name)>>, <<K_description, description>>,
                  <<K_parameters, DefaultSchema>> >>)
      [] format = "idSchema" ->
           Obj(<< <<K_id, Str(name)>>, <<K_description, description>>,
                  <<K_schema, DefaultSchema>> >>)
      [] format = "nameOnly" ->
           Obj(<< <<K_name, Str(name)>>, <<K_description, description>> >>)

\* config.toolDescriptionMaxLength: extraction disabled, and a limit
ToolDescriptionMaxLengths == {0, MaxDescription}
\* no description, and descriptions below, at and above the limit
ToolDescriptions ==
    {Undefined} \cup {Str([i \in 1..n |-> "d"]) : n \in 1..(MaxDescription + 1)}
FormattedTools ==
    {ToolOf(format, <<"f">>, description) :
        format \in ToolFormats, description \in ToolDescriptions}
ToolLists ==
    {Undefined} \cup {Arr(items) : items \in UNION {[1..n -> FormattedTools] : n \in 0..MaxTools}}

InitToolDocs ==
    /\ InitIdle
    /\ InitNoParser
    /\ InitNoStream
    /\ InitNoUsage
    /\ InitNoDisk
    /\ InitNoResp
    /\ \E tools \in ToolLists, limit \in ToolDescriptionMaxLengths, systemPrompt \in {<<>>, <<"s">>} :
          conv = [pc |-> "tools", tools |-> tools, limit |-> limit,
                  systemPrompt |-> systemPrompt]

\* buildKiroPayload up to the system prompt, and the tools of
\* buildUserInputContext
BuildTools ==
    /\ conv.pc = "tools"
    /\ LET processed == ProcessToolsWithLongDescriptions(conv.tools, conv.limit)
       IN conv' = [pc |-> "built", tools |-> conv.tools, limit |-> conv.limit,
                   systemPrompt |-> WithToolDocumentation(conv.systemPrompt,
                                                          processed.documentation),
                   documentation |-> processed.documentation,
                   contextTools |-> ConvertToKiroTools(processed.tools)]
    /\ UNCHANGED <<authVars, parserVars, streamVars, usage, disk, resp>>

NextToolDocs == BuildTools

SpecToolDocs == InitToolDocs /\ [][NextToolDocs]_vars

----------------------------------------------------------------------------
(* One _refreshTokenRequest() of a manager with a credentials file: what
   each answer of the refresh endpoint does to the fields and the file *)

K_expiresIn == <<"e", "x", "p", "i", "r", "e", "s", "I", "n">>

\* new Date(NaN): toISOString() of it throws a RangeError
InvalidDate == [t |-> "date", v |-> <<"I", "n", "v", "a", "l", "i", "d">>]
\* toISOString() of the date n seconds after the call
DateAfter(n) == Str(<<"+">> \o NumText(n))

\* x - 60 is a number: x is a number or a string of digits
IsNumeric(x) ==
    \/ x.t = "number"
    \/ x.t = "string" /\ x.v # <<>> /\ \A i \in 1..Len(x.v) : x.v[i] \in Digits

\* new Date(Date.now() + (expiresIn - 60) * 1000) with expiresIn =
\* data.expiresIn || 3600, for answers of at least a minute
ExpiresAtOf(data) ==
    LET expiresIn == Or(Get(data, K_expiresIn), Num(NumText(DEFAULT_EXPIRES_IN)))
    IN IF IsNumeric(expiresIn) THEN DateAfter(NumValue(expiresIn.v) - EXPIRY_SKEW)
       ELSE InvalidDate

\* the fields after "Update data" and the new expiration time
UpdatedFields(m, data) ==
    [accessToken |-> Get(data, K_accessToken),
     refreshToken |-> IF IsTruthy(Get(data, K_refreshToken))
                      THEN Get(data, K_refreshToken) ELSE m.refreshToken,
     profileArn |-> IF IsTruthy(Get(data, K_profileArn))
                    THEN Get(data, K_profileArn) ELSE m.profileArn,
     expiresAt |-> ExpiresAtOf(data)]

\* _saveCredentialsToFile() as a whole: the file after it
SaveCredentialsToFile(file, m) ==
    IF ExistingData(file).ok THEN FileOf(SavedText(ExistingData(file).val, m)) ELSE file

\* the bodies of the 2xx answers: with and without accessToken,
\* refreshToken and profileArn; expiresIn absent, a number, not a number
RefreshBodies ==
    {Obj(<< <<K_accessToken, accessToken>>, <<K_refreshToken, refreshToken>>,
            <<K_profileArn, profileArn>>, <<K_expiresIn, expiresIn>> >>) :
        accessToken \in {Undefined, Str(<<"b">>)},
        refreshToken \in {Undefined, Str(<<"s">>)},
        profileArn \in {Undefined, Str(<<"q">>)},
        expiresIn \in {Undefined, Num(<<"7", "2", "0", "0">>), Str(<<"1", "h">>)}}

\* the manager before the refresh
RefreshedManagers ==
    [accessToken : {Null, Str(<<"a">>)},
     refreshToken : {Str(<<"r">>)},
     expiresAt : {Null, DateAfter(0)},
     profileArn : {Null, Str(<<"p">>)}]

InitRefresh ==
    /\ InitIdle
    /\ InitNoParser
    /\ InitNoStream
    /\ InitNoUsage
    /\ InitNoConv
    /\ InitNoResp
    /\ \E file \in CredentialFiles, m \in RefreshedManagers :
          disk = [pc |-> "post", attempt |-> 0, manager |-> m, before |-> m,
                  file |-> file, old |-> file]

\* the end of an attempt that is retried: sleep, and the next attempt or,
\* after the last one, the throw of lastError
RetryOf(d) ==
    [d EXCEPT !.attempt = @ + 1,
              !.pc = IF d.attempt + 1 < REFRESH_MAX_RETRIES THEN "post" ELSE "failed"]

\* fetch() rejects, or the answer has a status of the retry list, or the
\* body of a 2xx answer is not JSON
AttemptRetried ==
    /\ disk.pc = "post"
    /\ disk' = RetryOf(disk)
    /\ UNCHANGED <<authVars, parserVars, streamVars, usage, conv, resp>>

\* another status, or a 2xx answer without accessToken: TokenRefreshError
AttemptRejected ==
    /\ disk.pc = "post"
    /\ \/ {status \in RefreshStatuses :
              ~ResponseIsOk(status) /\ ~IsRefreshRetryStatus(status)} # {}
       \/ {data \in RefreshBodies : ~IsTruthy(Get(data, K_accessToken))} # {}
    /\ disk' = [disk EXCEPT !.pc = "failed"]
    /\ UNCHANGED <<authVars, parserVars, streamVars, usage, conv, resp>>

\* a 2xx answer with an accessToken: the fields are updated; the log line
\* with toISOString() throws for an invalid date, which the catch of the
\* loop takes for a failed attempt; otherwise the file is saved and the
\* refresh returns
AttemptAnswered ==
    /\ disk.pc = "post"
    /\ \E data \in RefreshBodies :
          /\ IsTruthy(Get(data, K_accessToken))
          /\ LET m == UpdatedFields(disk.manager, data)
             IN disk' = IF m.expiresAt = InvalidDate
                        THEN RetryOf([disk EXCEPT !.manager = m])
                        ELSE [disk EXCEPT !.manager = m, !.pc = "ok",
                                          !.file = SaveCredentialsToFile(disk.file, m)]
    /\ UNCHANGED <<authVars, parserVars, streamVars, usage, conv, resp>>

NextRefresh ==
    \/ AttemptRetried
    \/ AttemptRejected
    \/ AttemptAnswered

SpecRefresh == InitRefresh /\ [][NextRefresh]_vars

----------------------------------------------------------------------------
(* The starts and stops of the tool calls of one response *)

\* tool_start events with and without the stop flag, with and without
\* toolUseId; tool_stop events with true and false; a tool_input event
StartStopEvents ==
    { ToolStart(<<"f">>, Member(K_toolUseId, Quoted(<<"t">>))),
      ToolStart(<<"f">>, Member(K_toolUseId, Quoted(<<"t">>)) \o Member(K_stop, TrueText)),
      ToolStart(<<"g">>, <<>>),
      ToolStart(<<"g">>, Member(K_toolUseId, Quoted(<<"u">>)) \o Member(K_input, ObjectA)
                             \o Member(K_stop, TrueText)),
      EventText(K_stop, TrueText),
      EventText(K_stop, False.v),
      EventText(K_input, ObjectB) }

\* the events of a body of these events
EventsIn(text) ==
    Cardinality({i \in 1..Len(text) : \E pat \in Patterns : MatchesAt(text, i, pat)})

\* reader.read() hands over one of the events and the stream loop feeds it
\* to the parser
StartStopEvent ==
    /\ ~returned.called
    /\ EventsIn(upstream.text) < MaxEvents
    /\ \E e \in StartStopEvents :
          /\ upstream' = [text |-> upstream.text \o e, pos |-> upstream.pos + Len(e)]
          /\ parser' = Feed(parser, ByteChunk(e)).parser
          /\ fed' = fed \o Feed(parser, ByteChunk(e)).events
    /\ UNCHANGED <<authVars, returned, streamVars, pureVars>>

NextStarts ==
    \/ StartStopEvent
    \/ EndOfBody

SpecStarts == InitTools /\ [][NextStarts]_vars

----------------------------------------------------------------------------
(* Properties of the credential manager *)

WaitersOf(r) == {refreshes[r].waiters[i] : i \in 1..Len(refreshes[r].waiters)}
ManagerIds == DOMAIN managers
LongLived(r) ==
    EffectiveExpiresIn(r.expiresIn) - EXPIRY_SKEW > TOKEN_REFRESH_THRESHOLD

\* C1: on one credential manager at most one refresh request is in flight
\* at any time, whatever the interleaving of getAccessToken() and
\* forceRefresh() calls.
C1_SingleFlight ==
    \A mid \in ManagerIds :
        Cardinality({r \in RefreshIds : /\ refreshes[r].mgr = mid
                                        /\ refreshes[r].phase = "post"}) <= 1

\* the calls of the scenario of C2: the getAccessToken() call that started
\* refresh r and the getAccessToken() calls that found r in flight, N >= 2
\* in all, once all of them have returned
C2_Scenario(r) ==
    /\ Len(refreshes[r].waiters) >= 2
    /\ \A c \in WaitersOf(r) :
          proc[c].op = "getAccessToken" /\ proc[c].pc = "done" /\ proc[c].err = "none"
C2_PostsBy(W) == TotalPosts({r \in RefreshIds : refreshes[r].by \in W})
C2_Outcome(r) ==
    /\ C2_PostsBy(WaitersOf(r)) = 1
    /\ \A c \in WaitersOf(r) : proc[c].ret = Token(r, refreshes[r].sent)

Enters(c, op) ==
    /\ client[c].pc = "none"
    /\ proc[c].pc = "idle" /\ proc'[c].pc # "idle" /\ proc'[c].op = op
StartsRefresh(c) ==
    /\ Len(refreshes') = Len(refreshes) + 1
    /\ refreshes'[Len(refreshes')].by = c
    /\ proc'[c].pc = "waitOwn"
Returns(c) ==
    proc[c].pc # "done" /\ proc'[c].pc = "done" /\ proc'[c].err = "none"

C3_Step ==
    \A c \in Callers :
        LET m == managers[proc[c].mgr] IN
        /\ Enters(c, "getAccessToken") /\ m.refreshLock = 0 =>
              /\ (/\ m.accessToken # NoToken
                  /\ m.expiresKind = "date"
                  /\ m.expiresAt > now + TOKEN_REFRESH_THRESHOLD)
                 => /\ Returns(c)
                    /\ proc'[c].ret = m.accessToken
                    /\ refreshes' = refreshes
              /\ (\/ m.accessToken = NoToken
                  \/ m.expiresKind = "date"
                     /\ now + TOKEN_REFRESH_THRESHOLD >= m.expiresAt)
                 => StartsRefresh(c)
        /\ Returns(c) /\ proc'[c].op = "getAccessToken" =>
              /\ proc'[c].ret # NoToken
              /\ proc'[c].ret = managers'[proc[c].mgr].accessToken

\* C3: getAccessToken() with no refresh in flight returns the cached token
\* without a refresh when the token is cached and expiresAt > now +
\* threshold, starts a refresh when no token is cached or now + threshold >=
\* expiresAt, and whatever it returns is the manager's access token, never
\* null.
C3_CachedOrRefreshed == [][C3_Step]_vars

C3_Witness ==
    \E c, d \in Callers :
        /\ proc[c].op = "getAccessToken" /\ proc[c].pc = "done"
        /\ proc[c].ret # NoToken /\ proc[c].ret[1] = 0
        /\ proc[d].op = "getAccessToken" /\ proc[d].pc = "done"
        /\ proc[d].ret # NoToken /\ proc[d].ret[1] # 0
        /\ \E r \in RefreshIds : refreshes[r].by = d /\ proc[d].ret[1] = r

SettlesIn(r) ==
    /\ r \in RefreshIds
    /\ ~Settled(refreshes[r]) /\ Settled(refreshes'[r])

C4_Step ==
    /\ \A r \in RefreshIds :
          SettlesIn(r) => managers'[refreshes[r].mgr].refreshLock = 0
    /\ \A c \in Callers : \A op \in {"getAccessToken", "forceRefresh"} :
          Enters(c, op) =>
              /\ proc'[c].pc = "waitLock" => ~Settled(refreshes'[proc'[c].wait])
              /\ (op = "forceRefresh" /\ managers[proc[c].mgr].refreshLock = 0)
                 => StartsRefresh(c)
    /\ \A c \in Callers :
          (proc[c].pc # "done" /\ proc'[c].pc = "done" /\ proc'[c].errOf # 0)
              => proc'[c].errOf = proc[c].wait

\* C4: the lock is released at the step a refresh finishes, on success and
\* on failure; a call made after a failed refresh never waits on that
\* refresh nor gets its error (an error handed to a call is the error of
\* the refresh it awaited, which was running when the call was made), and a
\* forceRefresh() made then starts a new refresh.
C4_LockReleased == [][C4_Step]_vars

C4_Witness ==
    /\ Len(refreshes) >= 2
    /\ refreshes[1].phase = "failed"
    /\ refreshes[2].by \notin WaitersOf(1)
    /\ refreshes[2].phase = "ok"
    /\ proc[refreshes[2].by].pc = "done"

\* C5: every failure of getAccessToken() is a TokenRefreshError.
C5_FailsWithTokenRefreshError ==
    \A c \in Callers :
        (proc[c].op = "getAccessToken" /\ proc[c].pc = "done" /\ proc[c].err # "none")
            => proc[c].err = "TokenRefreshError"

----------------------------------------------------------------------------
(* Properties of the credential cache and of the credential parsing *)

RequestIds == 1..Len(reqs)
IsGetOrCreate(e) == e.outcome = "manager" /\ e.mgr # GLOBAL
GetOrCreateIds == {i \in RequestIds : IsGetOrCreate(reqs[i])}
OnlyGetOrCreate ==
    \A i \in RequestIds : reqs[i].route \notin {"clear", "remove"}

KeysUsed == {reqs[i].key : i \in GetOrCreateIds}
CacheKeys == {cache[i].key : i \in 1..Len(cache)}
\* the last getOrCreate call made with the key
LastUse(key) ==
    CHOOSE i \in GetOrCreateIds :
        reqs[i].key = key /\ \A j \in GetOrCreateIds : reqs[j].key = key => j <= i
\* the n most recently used of the keys used
MostRecent(n) ==
    {k \in KeysUsed :
        Cardinality({l \in KeysUsed : LastUse(l) > LastUse(k)}) < n}

\* C6: after getOrCreate calls with K > capacity distinct refresh tokens the
\* cache holds exactly capacity entries, those of the most recently used
\* tokens; the cache is ordered by recency of use (a hit makes its key the
\* most recent) and a call hands out the manager stored for its key.
C6_LRU ==
    OnlyGetOrCreate =>
        /\ Cardinality(KeysUsed) > MaxSize =>
              /\ Len(cache) = MaxSize
              /\ CacheKeys = MostRecent(MaxSize)
        /\ \A i, j \in 1..Len(cache) :
              i < j => LastUse(cache[i].key) < LastUse(cache[j].key)
        /\ \A i \in 1..Len(cache) : cache[i].mgr = reqs[LastUse(cache[i].key)].mgr

\* getOrCreate calls i < j with one refresh token and between them nothing
\* but calls with that token and requests that reach no cache operation
C7_Concurrent(i, j) ==
    /\ i < j
    /\ reqs[i].key = reqs[j].key
    /\ \A n \in (i + 1)..(j - 1) :
          \/ n \in GetOrCreateIds /\ reqs[n].key = reqs[i].key
          \/ reqs[n].route \in {"openai", "anthropic"} /\ n \notin GetOrCreateIds

\* C7: concurrent getOrCreate calls with one refresh token return the same
\* manager, the cache never holds two entries for one key, and after a call
\* it holds one entry for the key, with the manager returned.
C7_OneManagerPerKey ==
    /\ \A i, j \in GetOrCreateIds : C7_Concurrent(i, j) => reqs[i].mgr = reqs[j].mgr
    /\ \A i, j \in 1..Len(cache) : cache[i].key = cache[j].key => i = j
    /\ \A j \in GetOrCreateIds : j = Len(reqs) =>
          /\ Cardinality({n \in 1..Len(cache) : cache[n].key = reqs[j].key}) = 1
          /\ \A n \in 1..Len(cache) :
                cache[n].key = reqs[j].key => cache[n].mgr = reqs[j].mgr

\* two calls that both found no manager for the token in the cache the
\* first of them saw
C7_Witness ==
    \E i, j \in GetOrCreateIds :
        /\ C7_Concurrent(i, j) /\ j = Len(reqs)
        /\ \A n \in RequestIds : n < i => reqs[n].mgr # reqs[i].mgr
        /\ reqs[i].mgr = reqs[j].mgr
        /\ Len(cache) = MaxSize

\* the refresh token a tenant presents: what follows "Bearer PROXY_API_KEY:"
TenantPrefix == BearerPrefix \o PROXY_API_KEY \o <<":">>
IsTenant(e) == e.route = "openai" /\ e.header.present /\ StartsWith(e.header.text, TenantPrefix)
PresentedRefreshToken(e) == Slice(e.header.text, Len(TenantPrefix))
InCache(mid) == \E n \in 1..Len(cache) : cache[n].mgr = mid

\* C8: requests presenting PROXY_API_KEY:R1 and PROXY_API_KEY:R2, R1 # R2,
\* are given distinct managers, held by the cache while no more tokens than
\* its capacity have been used, every refresh started by
\* a request sends the refresh token the request presented or one the
\* endpoint rotated it to, and no request receives an access token minted
\* for the refresh token another tenant presented.
C8_TenantIsolation ==
    \A i, j \in RequestIds :
        (/\ IsTenant(reqs[i]) /\ IsTenant(reqs[j])
         /\ PresentedRefreshToken(reqs[i]) # PresentedRefreshToken(reqs[j]))
        => /\ reqs[i].mgr # reqs[j].mgr
           /\ Cardinality(KeysUsed) <= MaxSize =>
                 InCache(reqs[i].mgr) /\ InCache(reqs[j].mgr)
           /\ \A r \in RefreshIds : (i \in Callers /\ refreshes[r].by = i) =>
                 /\ refreshes[r].sent # PresentedRefreshToken(reqs[j])
                 /\ \/ refreshes[r].sent = PresentedRefreshToken(reqs[i])
                    \/ \E q \in RefreshIds : /\ q < r
                                            /\ refreshes[q].mgr = refreshes[r].mgr
                                            /\ refreshes[q].phase = "ok"
           /\ (i \in Callers /\ proc[i].ret # NoToken) =>
                 proc[i].ret[2] # PresentedRefreshToken(reqs[j])

\* the credential of a request: x-api-key when the Anthropic route got one,
\* else what follows "Bearer " in the Authorization header
Credential(e) ==
    IF e.route = "anthropic" /\ Truthy(e.xApiKey) THEN e.xApiKey
    ELSE IF e.header.present /\ StartsWith(e.header.text, BearerPrefix)
    THEN Text(Slice(e.header.text, Len(BearerPrefix)))
    ELSE Missing
\* exactly PROXY_API_KEY, or PROXY_API_KEY:REFRESH_TOKEN
ValidCredential(cr) ==
    /\ cr.present
    /\ \/ cr.text = PROXY_API_KEY
       \/ StartsWith(cr.text, PROXY_API_KEY \o <<":">>)

Arrives(e) ==
    /\ Len(reqs') = Len(reqs) + 1
    /\ e = reqs'[Len(reqs')]
    /\ e.route \in {"openai", "anthropic"}

C9_Step ==
    \A e \in {reqs'[n] : n \in {Len(reqs')} \cap DOMAIN reqs'} :
        Arrives(e) =>
            /\ ~ValidCredential(Credential(e)) =>
                  /\ e.outcome = "AuthenticationError"
                  /\ e.status = AUTHENTICATION_ERROR_STATUS
            /\ e.outcome = "AuthenticationError" =>
                  /\ cache' = cache
                  /\ managers' = managers
                  /\ e.mgr = 0

\* C9: a request whose credential is neither PROXY_API_KEY nor
\* PROXY_API_KEY:REFRESH_TOKEN (a missing header included) is answered
\* AuthenticationError, status 401, and a rejected request leaves the cache
\* (entries and order) and the managers as they were.
C9_RejectedBeforeLookup == [][C9_Step]_vars

C9_Witness ==
    /\ Len(cache) = MaxSize
    /\ \E n \in RequestIds :
          /\ n = Len(reqs)
          /\ reqs[n].outcome = "AuthenticationError"
          /\ reqs[n].header = Bearer(<<"x", ":", "a">>)
          /\ reqs[n].route = "openai"

----------------------------------------------------------------------------
(* Properties of requestWithRetry *)

\* pass k received 403 and pass k + 1 received a 2xx
C10_Scenario(cl, k) ==
    /\ k + 1 <= Len(cl.iters)
    /\ cl.iters[k].status = 403
    /\ ResponseIsOk(cl.iters[k + 1].status)

C10_Outcome(cl, k) ==
    /\ cl.iters[k].forced = 1
    /\ cl.iters[k].delay = 0
    /\ cl.iters[k + 1].posts = cl.iters[k].posts + 1
    /\ cl.iters[k + 1].token # cl.iters[k].token
    /\ cl.iters[k + 1].token = cl.iters[k].forceTok
    /\ cl.result = "response" /\ ResponseIsOk(cl.status)

\* the refresh made by the forceRefresh() of pass k succeeded at its first
\* POST and minted a token that is not expiring soon
C10_ForcedRefreshMintsLongLived(cl, k) ==
    /\ cl.iters[k].forceTok # NoToken
    /\ LET r == cl.iters[k].forceTok[1] IN
          /\ r \in RefreshIds
          /\ refreshes[r].attempt = 0
          /\ LongLived(refreshes[r])

\* C10 as stated: 403 on one attempt and success on the next means one
\* forceRefresh() in between, no sleep, one more refresh POST, the second
\* attempt carrying the refreshed token, and the response returned.
C10_RefreshOn403 ==
    \A c \in Callers : client[c].pc = "done" =>
        \A k \in 1..Len(client[c].iters) :
            C10_Scenario(client[c], k) => C10_Outcome(client[c], k)

\* C10 as amended: the same, when the forced refresh succeeds at its first
\* POST with a token whose lifetime less the skew exceeds the threshold.
C10_RefreshOn403WhenRefreshSucceedsAtOnce ==
    \A c \in Callers : client[c].pc = "done" =>
        \A k \in 1..Len(client[c].iters) :
            (C10_Scenario(client[c], k) /\ C10_ForcedRefreshMintsLongLived(client[c], k))
                => C10_Outcome(client[c], k)

C10_Witness ==
    \E c \in Callers :
        /\ client[c].pc = "done"
        /\ C10_Scenario(client[c], 1)
        /\ C10_ForcedRefreshMintsLongLived(client[c], 1)
        /\ client[c].iters[1].token # NoToken

\* the upstream requests a call has sent: the passes that got a token
C11_Requests(cl) == {k \in 1..Len(cl.iters) : cl.iters[k].token # NoToken}
C11_OtherStatus(status) ==
    status # 0 /\ ~ResponseIsOk(status) /\ status # 403 /\ ~IsRetryStatus(status)

\* C11: a call sends at most maxRetries upstream requests; a 429 or 5xx
\* answer to attempt a is followed by a sleep of baseRetryDelay * 2^a and, if
\* an attempt is left, by the next attempt; any other status that is not 2xx
\* or 403 ends the call with that response, without sleep or retry; a call
\* that ends without a response has used maxRetries attempts and throws
\* TimeoutError when streaming, UpstreamError otherwise.
C11_RetryPolicy ==
    \A c \in Callers : client[c].pc # "none" =>
        LET cl == client[c]
            n == Len(cl.iters) IN
        /\ Cardinality(C11_Requests(cl)) <= CLIENT_MAX_RETRIES
        /\ \A k \in 1..n : IsRetryStatus(cl.iters[k].status) =>
              /\ cl.iters[k].delay = BASE_RETRY_DELAY * 2 ^ (k - 1)
              /\ \/ k < n
                 \/ k = n /\ cl.pc = "sleep"
                 \/ k = n /\ k = CLIENT_MAX_RETRIES /\ cl.pc = "done"
                    /\ cl.result # "response"
        /\ \A k \in 1..n : C11_OtherStatus(cl.iters[k].status) =>
              /\ k = n /\ cl.pc = "done"
              /\ cl.result = "response" /\ cl.status = cl.iters[k].status
              /\ cl.iters[k].delay = 0
        /\ cl.pc = "done" =>
              \/ cl.result = "response"
              \/ /\ n = CLIENT_MAX_RETRIES
                 /\ cl.result = IF cl.stream THEN "TimeoutError" ELSE "UpstreamError"

C11_Witness ==
    \E c \in Callers :
        /\ client[c].pc = "done" /\ Len(client[c].iters) = CLIENT_MAX_RETRIES
        /\ client[c].iters[1].status = 429 /\ client[c].iters[2].status = 503
        /\ \/ client[c].iters[3].status = 400 /\ client[c].result = "response"
           \/ client[c].iters[3].status = 503 /\ client[c].stream
              /\ client[c].result = "TimeoutError"

\* one feed() of the whole body by a new parser
WholeFeed == Feed(NewParser, ByteChunk(upstream.text))

\* C12: chunking does not change the parse: once the whole body was fed,
\* in chunks cut anywhere, the events returned by the successive feed()
\* calls, concatenated, are the events one feed() of the whole body returns,
\* and what stays buffered is what that one feed() leaves buffered.
C12_ChunkingInvariant ==
    (upstream # NoUpstream /\ upstream.pos = Len(upstream.text)) =>
        /\ fed = WholeFeed.events
        /\ parser.buffer = WholeFeed.parser.buffer

\* the same for the bodies of ASCII bytes only
C12_ChunkingOfAscii ==
    (\A i \in 1..Len(upstream.text) : upstream.text[i] \notin {"C3", "A9"})
        => C12_ChunkingInvariant

\* a text that is the serialization of a JSON object
IsObjectText(text) ==
    /\ JSONParse(text).ok
    /\ JSONParse(text).val.t = "object"
    /\ JSONStringify(JSONParse(text).val) = text

\* C13: whatever tool_start, tool_input and tool_stop events were fed, with
\* whatever inputs, every tool call getToolCalls() returns has arguments
\* that are the serialization of a JSON object ("{}" included).
C13_ArgumentsAreObject ==
    returned.called =>
        \A i \in 1..Len(returned.toolCalls) :
            IsObjectText(returned.toolCalls[i].arguments)

\* floor(pct / 100 * maxInputTokens) of the call
C18_Floor == (usage.contextUsagePercentage.n * usage.maxInputTokens)
                 \div (100 * usage.contextUsagePercentage.d)
\* ceil(length / 4) of the content
C18_Completion == (Len(usage.fullContent) + 3) \div 4
C18_Positive == ~usage.contextUsagePercentage.null /\ usage.contextUsagePercentage.n > 0
C18_FromApi ==
    /\ usage.result.totalTokens = C18_Floor
    /\ usage.result.promptTokens =
          (IF C18_Floor - C18_Completion > 0 THEN C18_Floor - C18_Completion ELSE 0)
C18_LocalEstimate ==
    /\ usage.result.promptTokens =
          PromptTokensEstimate(usage.requestMessages, usage.requestTools)
    /\ usage.result.totalTokens = usage.result.promptTokens + usage.result.completionTokens

\* C18 as stated: a percentage greater than 0 gives totalTokens =
\* floor(pct / 100 * maxInputTokens) and promptTokens = max(0, totalTokens -
\* completionTokens); a percentage of 0 or none gives the local estimate
\* with totalTokens = promptTokens + completionTokens.
C18_TokenAccounting ==
    usage.pc = "returned" =>
        /\ C18_Positive => C18_FromApi
        /\ ~C18_Positive => C18_LocalEstimate

\* C18, amended: the percentage decides when floor(pct / 100 *
\* maxInputTokens) is greater than 0; when the percentage is 0, absent, or
\* so small that the floor is 0, the usage is the local estimate with
\* totalTokens = promptTokens + completionTokens.
C18_TokenAccountingWhenFloorPositive ==
    usage.pc = "returned" =>
        /\ usage.result.completionTokens = C18_Completion
        /\ (C18_Positive /\ C18_Floor > 0) => C18_FromApi
        /\ (~C18_Positive \/ C18_Floor = 0) => C18_LocalEstimate

\* a percentage whose total is smaller than the completion, so that the
\* prompt tokens are clamped to 0
C18_Witness ==
    /\ usage.pc = "returned"
    /\ C18_Positive
    /\ C18_Floor > 0
    /\ C18_Floor < C18_Completion
    /\ usage.result.promptTokens = 0

----------------------------------------------------------------------------
(* Properties of the stream generators *)

\* the data of the content events among events, in order
ContentData(events) ==
    [i \in 1..Len(SelectSeq(events, LAMBDA ev : ev.type = "content")) |->
        SelectSeq(events, LAMBDA ev : ev.type = "content")[i].data]

\* the tool calls of a parser that was fed the whole body
WholeToolCalls == DeduplicateToolCalls(GetToolCalls(WholeFeed.parser).toolCalls)

\* the generator of the dialect returned at the end of a body that
\* delivered at least one chunk, and no error occurred
EndedWithoutError(dialect) ==
    /\ gen.dialect = dialect
    /\ gen.pc = "done"
    /\ gen.error = "none"
    /\ upstream.text # <<>>

\* fs is: a chunk per content, the first with the role; a chunk with all
\* the calls, indexed from 0, if there is a call; a final chunk with usage
\* and the finish reason; [DONE]
IsOpenAIOrder(fs, contents, calls) ==
    /\ Len(fs) = Len(contents) + (IF calls = <<>> THEN 0 ELSE 1) + 2
    /\ \A i \in 1..Len(contents) : fs[i] = OpenAIChunk(i = 1, contents[i])
    /\ calls # <<>> =>
          /\ fs[Len(contents) + 1].type = "tool_calls"
          /\ Len(fs[Len(contents) + 1].tool_calls) = Len(calls)
          /\ \A i \in 1..Len(calls) :
                /\ fs[Len(contents) + 1].tool_calls[i].index = i - 1
                /\ fs[Len(contents) + 1].tool_calls[i].id = calls[i].id
                /\ fs[Len(contents) + 1].tool_calls[i].name = calls[i].name
    /\ fs[Len(fs) - 1].type = "final"
    /\ fs[Len(fs) - 1].finish_reason = IF calls = <<>> THEN "stop" ELSE "tool_calls"
    /\ fs[Len(fs) - 1].total_tokens >= fs[Len(fs) - 1].completion_tokens
    /\ fs[Len(fs)] = DoneFrame

\* C14: OpenAI frame order: when the body delivered at least one chunk and
\* ended without error, the frames are one chunk per content event of the
\* body in order (only the first with role "assistant"), then at most one
\* chunk with all the tool calls indexed 0..n-1, then one final chunk with
\* usage and finish_reason "tool_calls" or "stop", then [DONE] as last frame.
C14_OpenAIFrameOrder ==
    EndedWithoutError("openai") =>
        IsOpenAIOrder(frames, ContentData(WholeFeed.events), WholeToolCalls)

\* the same for the events and the tool calls the generator got from its
\* parser
C14_OpenAIFrameOrderOfFedEvents ==
    EndedWithoutError("openai") =>
        IsOpenAIOrder(frames, ContentData(fed), DeduplicateToolCalls(returned.toolCalls))

\* the same for the bodies every chunk of which reached the generator
C14_OpenAIFrameOrderWithoutLoss ==
    (EndedWithoutError("openai") /\ upstream.pos = Len(upstream.text)) =>
        IsOpenAIOrder(frames, ContentData(WholeFeed.events), WholeToolCalls)

\* the positions of the frames of a type
Positions(fs, type) ==
    SelectSeq([i \in 1..Len(fs) |-> i], LAMBDA i : fs[i].type = type)

\* fs is: message_start; blocks, each a content_block_start, its deltas
\* and its content_block_stop, with indexes 0, 1, 2, ... and only block 0
\* a text block; message_delta with the stop reason; message_stop
IsAnthropicGrammar(fs, starts, stops, calls) ==
    /\ Len(fs) >= 3
    /\ Positions(fs, "message_start") = <<1>>
    /\ fs[Len(fs)].type = "message_stop"
    /\ fs[Len(fs) - 1].type = "message_delta"
    /\ fs[Len(fs) - 1].stop_reason = IF calls = <<>> THEN "end_turn" ELSE "tool_use"
    /\ Len(starts) = Len(stops)
    /\ \A k \in 1..Len(starts) :
          /\ starts[k] = IF k = 1 THEN 2 ELSE stops[k - 1] + 1
          /\ starts[k] < stops[k]
          /\ fs[starts[k]].index = k - 1
          /\ fs[stops[k]].index = k - 1
          /\ \A j \in (starts[k] + 1)..(stops[k] - 1) :
                /\ fs[j].type = "content_block_delta"
                /\ fs[j].index = k - 1
          /\ k > 1 => fs[starts[k]].block = "tool_use"
    /\ (IF stops = <<>> THEN 1 ELSE stops[Len(stops)]) = Len(fs) - 2
    /\ Len(SelectSeq(starts, LAMBDA i : fs[i].block = "tool_use")) = Len(calls)

AnthropicGrammar ==
    IsAnthropicGrammar(frames, Positions(frames, "content_block_start"),
                       Positions(frames, "content_block_stop"), WholeToolCalls)

ContentChunks ==
    [i \in 1..Len(ContentData(fed)) |-> OpenAIChunk(i = 1, ContentData(fed)[i])]

\* under streamKiroWithRetry: makeRequest was called once per attempt, at
\* most maxRetries times, with a sleep of one second before every attempt
\* but the first; only a first-token timeout is slept on; the frames are
\* those of the events of the current attempt, once each
RetryState ==
    gen.retry =>
        /\ gen.attempt < STREAM_MAX_RETRIES
        /\ gen.requests = gen.attempt + (IF gen.pc = "request" THEN 0 ELSE 1)
        /\ gen.requests <= STREAM_MAX_RETRIES
        /\ gen.sleeps = gen.attempt * STREAM_RETRY_DELAY
        /\ gen.pc = "sleep" => gen.error = "first_token_timeout"
        /\ gen.pc \in {"request", "first", "sleep"} => frames = <<>>
        /\ gen.pc \in {"read", "failed"} => frames = ContentChunks
        /\ (gen.pc = "done" /\ upstream.text # <<>>) =>
              IsOpenAIOrder(frames, ContentData(fed),
                            DeduplicateToolCalls(returned.toolCalls))

\* a new attempt starts only after a first-token timeout, before any frame
RetryStep ==
    (gen.retry /\ gen'.attempt # gen.attempt) =>
        /\ gen.error = "first_token_timeout"
        /\ gen'.attempt = gen.attempt + 1
        /\ frames = <<>>

\* C16: first-token retry: under streamKiroWithRetry makeRequest is called
\* once per attempt, at most maxRetries = 3 times and one second apart; the
\* client gets the frames of one attempt only (none of a timed-out attempt,
\* no content twice); an error other than a first-token timeout is never
\* retried.
C16_FirstTokenRetry == [](RetryState) /\ [][RetryStep]_vars

\* the first attempt timed out before its first chunk and a later attempt
\* delivered content and ended
C16_Witness ==
    /\ gen.retry
    /\ gen.attempt >= 1
    /\ gen.requests = gen.attempt + 1
    /\ gen.pc = "done"
    /\ Len(SelectSeq(frames, LAMBDA f : f.type = "chunk")) >= 2

\* a read failed, or the reads timed out too often, after the body had
\* delivered a chunk
FailedMidStream ==
    /\ gen.error \in {"read", "stream_timeout"}
    /\ gen.pc \in {"done", "failed"}
    /\ upstream.text # <<>>

\* the last frame is the only error frame and no [DONE] was written
EndsWithErrorFrame(fs) ==
    /\ fs # <<>>
    /\ Positions(fs, "error") = <<Len(fs)>>
    /\ Positions(fs, "done") = <<>>

\* C17: when an error occurs after streaming has begun, the pipeline of
\* every dialect writes one error frame as its last frame and closes: no
\* [DONE] and no other frame follows.
C17_ErrorFrameLast == FailedMidStream => EndsWithErrorFrame(frames)

\* the same for the Anthropic dialect only
C17_ErrorFrameLastOfAnthropic ==
    (FailedMidStream /\ gen.dialect = "anthropic") => EndsWithErrorFrame(frames)

----------------------------------------------------------------------------
(* Properties of the converters *)

\* the tool_use_ids of the tool_result blocks of the messages, in order
RECURSIVE ToolResultIds(_)
ToolResultIds(messages) ==
    IF messages = <<>> THEN <<>>
    ELSE [i \in 1..Len(ExtractToolResults(Head(messages).content)) |->
             ExtractToolResults(Head(messages).content)[i].toolUseId]
         \o ToolResultIds(Tail(messages))

\* the ids of the tool results a request carries: the tool_call_id of its
\* tool messages and the tool_use_id of its tool_result blocks, in order
RECURSIVE CarriedIds(_)
CarriedIds(messages) ==
    IF messages = <<>> THEN <<>>
    ELSE (IF Head(messages).role = "tool"
          THEN <<ToStr(Or(Head(messages).tool_call_id, Str(<<>>)))>>
          ELSE ToolResultIds(<<Head(messages)>>))
         \o CarriedIds(Tail(messages))

\* the merged message that holds the k-th tool result
Owner(merged, k) ==
    CHOOSE j \in 1..Len(merged) :
        /\ Len(ToolResultIds(SubSeq(merged, 1, j - 1))) < k
        /\ k <= Len(ToolResultIds(SubSeq(merged, 1, j)))

\* merged, made from input, alternates roles, has no tool message, holds
\* every tool result in order in a user message, and holds the results of
\* consecutive tool messages in one message
IsCanonical(merged, input) ==
    /\ \A i \in 1..Len(merged) : merged[i].role \notin {"tool", "system"}
    /\ \A i \in 1..(Len(merged) - 1) : merged[i].role # merged[i + 1].role
    /\ ToolResultIds(merged) = CarriedIds(input)
    /\ \A p \in 1..Len(input) :
          input[p].role = "tool" =>
              merged[Owner(merged, Len(CarriedIds(SubSeq(input, 1, p))))].role = "user"
    /\ \A p \in 1..(Len(input) - 1) :
          (input[p].role = "tool" /\ input[p + 1].role = "tool") =>
              Owner(merged, Len(CarriedIds(SubSeq(input, 1, p))))
                  = Owner(merged, Len(CarriedIds(SubSeq(input, 1, p + 1))))

\* C19: the message list the payload is built from (system messages
\* extracted, then mergeAdjacentMessages) has no two adjacent messages with
\* the same role and no message with role tool: each tool message is a
\* tool_result block of a user message, consecutive tool messages in the
\* same one.
C19_MergedMessages ==
    conv.pc = "returned" =>
        IsCanonical(conv.mergedMessages, NonSystemMessages(conv.messages))

\* a request with two consecutive tool messages next to a user message
C19_Witness ==
    /\ conv.pc = "returned"
    /\ Len(conv.messages) = 3
    /\ conv.messages[1].role = "tool"
    /\ conv.messages[2].role = "tool"
    /\ conv.messages[3].role = "user"
    /\ Len(conv.mergedMessages) = 1
    /\ Len(ToolResultIds(conv.mergedMessages)) >= 2

KindOf(role) ==
    IF role = "user" THEN "userInputMessage" ELSE "assistantResponseMessage"

EndsWith(s, p) == Len(s) >= Len(p) /\ SubSeq(s, Len(s) - Len(p) + 1, Len(s)) = p

\* history is the merged messages but the last (the last too if it is an
\* assistant message), in order and alternating; content is "Continue"
\* after an assistant message and for an empty content, and never empty
IsPayloadOf(payload, merged, systemPrompt) ==
    /\ Len(payload.history)
           = Len(merged) - (IF merged[Len(merged)].role = "assistant" THEN 0 ELSE 1)
    /\ \A i \in 1..Len(payload.history) :
          /\ payload.history[i].kind = KindOf(merged[i].role)
          /\ payload.history[i].content \in
                {ExtractTextContent(merged[i].content)}
                \cup (IF i = 1
                      THEN {WithSystemPrompt(systemPrompt,
                                             ExtractTextContent(merged[i].content))}
                      ELSE {})
    /\ \A i \in 1..(Len(payload.history) - 1) :
          payload.history[i].kind # payload.history[i + 1].kind
    /\ merged[Len(merged)].role = "assistant" => payload.content = CONTINUE
    /\ (merged[Len(merged)].role # "assistant"
           /\ ExtractTextContent(merged[Len(merged)].content) # <<>>) =>
          EndsWith(payload.content, ExtractTextContent(merged[Len(merged)].content))
    /\ (ExtractTextContent(merged[Len(merged)].content) = <<>>
           /\ (systemPrompt = <<>> \/ Len(merged) > 1)) =>
          payload.content = CONTINUE
    /\ payload.content # <<>>

\* C20: buildKiroPayload puts every merged message but the last into
\* history, in order, as alternating userInputMessage and
\* assistantResponseMessage entries; a last assistant message is appended
\* to history and the current content is "Continue"; the current content
\* is never empty (an empty one is "Continue").
C20_HistoryAndCurrent ==
    (conv.pc = "returned" /\ ~conv.payload.thrown) =>
        IsPayloadOf(conv.payload, conv.mergedMessages, SystemPrompt(conv.messages))

\* a request of three merged messages the last of which is an assistant
\* message
C20_Witness ==
    /\ conv.pc = "returned"
    /\ ~conv.payload.thrown
    /\ Len(conv.mergedMessages) = 3
    /\ conv.mergedMessages[3].role = "assistant"
    /\ Len(conv.payload.history) = 3
    /\ conv.payload.content = CONTINUE

\* the ids of the tool uses of the messages, in order
RECURSIVE ToolUseIds(_)
ToolUseIds(messages) ==
    IF messages = <<>> THEN <<>>
    ELSE (IF Head(messages).role = "assistant"
          THEN [i \in 1..Len(ExtractToolUses(Head(messages))) |->
                   ExtractToolUses(Head(messages))[i].toolUseId]
          ELSE <<>>)
         \o ToolUseIds(Tail(messages))

\* the non-empty texts of the user and assistant messages, in order
RECURSIVE TextsOf(_)
TextsOf(messages) ==
    IF messages = <<>> THEN <<>>
    ELSE (IF Head(messages).role \in {"user", "assistant"}
             /\ ExtractTextContent(Head(messages).content) # <<>>
          THEN <<ExtractTextContent(Head(messages).content)>>
          ELSE <<>>)
         \o TextsOf(Tail(messages))

\* the ids of the toolUses, and of the toolResults, of history entries
RECURSIVE EntriesToolUseIds(_)
EntriesToolUseIds(entries) ==
    IF entries = <<>> THEN <<>>
    ELSE [i \in 1..Len(Head(entries).toolUses) |-> Head(entries).toolUses[i].toolUseId]
         \o EntriesToolUseIds(Tail(entries))
RECURSIVE EntriesToolResultIds(_)
EntriesToolResultIds(entries) ==
    IF entries = <<>> THEN <<>>
    ELSE [i \in 1..Len(Head(entries).toolResults) |->
             Head(entries).toolResults[i].toolUseId]
         \o EntriesToolResultIds(Tail(entries))
RECURSIVE EntriesText(_)
EntriesText(entries) ==
    IF entries = <<>> THEN <<>>
    ELSE Head(entries).content \o <<LF>> \o EntriesText(Tail(entries))

\* the texts occur in whole one after the other
RECURSIVE InOrder(_, _)
InOrder(texts, whole) ==
    IF texts = <<>> THEN TRUE
    ELSE /\ \E i \in 1..(Len(whole) - Len(Head(texts)) + 1) :
               SubSeq(whole, i, i + Len(Head(texts)) - 1) = Head(texts)
         /\ InOrder(Tail(texts),
                    SubSeq(whole,
                           (CHOOSE i \in 1..(Len(whole) - Len(Head(texts)) + 1) :
                               /\ SubSeq(whole, i, i + Len(Head(texts)) - 1) = Head(texts)
                               /\ \A j \in 1..(i - 1) :
                                     SubSeq(whole, j, j + Len(Head(texts)) - 1)
                                         # Head(texts))
                               + Len(Head(texts)),
                           Len(whole)))

\* history followed by the current message holds the texts, the tool uses
\* and the tool results of the input, in order
Preserves(payload, input) ==
    /\ InOrder(TextsOf(input), EntriesText(payload.history) \o payload.content)
    /\ EntriesToolUseIds(payload.history) = ToolUseIds(input)
    /\ EntriesToolResultIds(payload.history)
           \o [i \in 1..Len(payload.toolResults) |-> payload.toolResults[i].toolUseId]
       = CarriedIds(input)

\* C21: history followed by the current message preserves, in order, all
\* user and assistant text and every tool_use and tool_result (with its
\* id) of the input messages: nothing is lost by merging, by prepending the
\* system prompt, or by moving a trailing assistant message into history.
C21_ContentPreserved ==
    (conv.pc = "returned" /\ ~conv.payload.thrown) =>
        Preserves(conv.payload, NonSystemMessages(conv.messages))

\* the same for the requests without system message whose last message is
\* not an assistant message
C21_ContentPreservedOtherwise ==
    (conv.pc = "returned" /\ ~conv.payload.thrown
        /\ SystemPrompt(conv.messages) = <<>>
        /\ conv.messages[Len(conv.messages)].role # "assistant") =>
        Preserves(conv.payload, NonSystemMessages(conv.messages))

\* C22: once the client has disconnected, the pending read is cancelled
\* and the reader loop stops: no further chunk of the upstream body is read
\* and no further frame is produced.
C22_DisconnectStopsReading ==
    [][gen.aborted => (gen'.chunks = gen.chunks /\ frames' = frames)]_vars

----------------------------------------------------------------------------
(* Properties of the persistence of the credentials *)

\* C23: persisting the credentials is atomic: after a crash at any point of
\* the save the credentials file holds the complete old content or the
\* complete new content, never a part of it.
C23_AtomicSave ==
    disk.pc = "crashed" =>
        \/ disk.file = disk.old
        \/ disk.data # <<>> /\ disk.file = FileOf(disk.data)

\* without a crash the file ends as the old content (when it did not
\* parse) or the complete new content
C23_SaveCompletes ==
    disk.pc = "returned" =>
        \/ disk.file = disk.old /\ ~ExistingData(disk.old).ok
        \/ disk.file = FileOf(disk.data) /\ disk.data # <<>>

----------------------------------------------------------------------------
(* Properties of the response converters *)

ChoiceOf(response) == FirstOf(Get(response, K_choices))
\* the text of a response: the string message.content, "" for null
ResponseText(response) ==
    LET content == Get(Get(ChoiceOf(response), K_message), K_content)
    IN  IF content.t = "string" THEN content.v ELSE <<>>
\* the tool calls of a response: the name and JSON.parse(arguments) of each
ResponseCalls(response) ==
    LET tcs == Get(Get(ChoiceOf(response), K_message), K_tool_calls)
        calls == IF tcs.t = "array" THEN tcs.v ELSE <<>>
    IN  [i \in 1..Len(calls) |->
            [name |-> Get(Get(calls[i], K_function), K_name),
             arguments |-> JSONParse(Get(Get(calls[i], K_function), K_arguments).v)]]
SameResponse(r, back) ==
    /\ ResponseText(back) = ResponseText(r)
    /\ ResponseCalls(back) = ResponseCalls(r)
    /\ Get(ChoiceOf(back), K_finish_reason) = Get(ChoiceOf(r), K_finish_reason)

\* C24 as stated: the response converted to Anthropic's format and back has
\* the text, the tool calls (name and parsed arguments) and the
\* finish_reason of the original
C24_RoundTrip ==
    resp.pc = "returned" => SameResponse(resp.openai, resp.back)

\* the finish reasons that have a stop_reason of their own, and the tool
\* calls whose arguments are the text of an object or an array
MappedBothWays(r) ==
    /\ Get(ChoiceOf(r), K_finish_reason) \in {Str(R_stop), Str(R_tool_calls), Str(R_length)}
    /\ \A i \in 1..Len(ResponseCalls(r)) :
         /\ ResponseCalls(r)[i].arguments.ok
         /\ ResponseCalls(r)[i].arguments.val.t \in {"object", "array"}

\* C24, amended: the round trip keeps the text, the tool calls (name and
\* parsed arguments) and the finish_reason of a response whose
\* finish_reason is stop, tool_calls or length and whose tool calls have
\* arguments that parse to an object or an array
C24_RoundTripOfMapped ==
    (resp.pc = "returned" /\ MappedBothWays(resp.openai))
        => SameResponse(resp.openai, resp.back)

C24_Witness ==
    /\ resp.pc = "returned"
    /\ MappedBothWays(resp.openai)
    /\ ResponseText(resp.openai) # <<>>
    /\ Len(ResponseCalls(resp.openai)) = 2
    /\ ResponseCalls(resp.openai)[1] # ResponseCalls(resp.openai)[2]
    /\ Get(ChoiceOf(resp.openai), K_finish_reason) = Str(R_length)

----------------------------------------------------------------------------
(* Properties of requestWithRetry: timeouts and token failures *)

\* pass k of a call sent its request and was ended by the timeout: a
\* token, no status, no sleep, and the pass is over
C25_TimedOut(cl, k) ==
    /\ cl.iters[k].token # NoToken
    /\ cl.iters[k].status = 0
    /\ cl.iters[k].delay = 0
    /\ k < Len(cl.iters) \/ cl.pc = "done"

\* C25: a streaming call whose upstream request is aborted by the timeout
\* is not retried by the HTTP client: the timed-out pass is the last pass
\* of the call, which ends by throwing to its caller.
C25_StreamTimeoutNotRetried ==
    \A c \in Callers : (client[c].pc # "none" /\ client[c].stream) =>
        \A k \in 1..Len(client[c].iters) :
            C25_TimedOut(client[c], k) =>
                /\ k = Len(client[c].iters)
                /\ client[c].pc = "done"
                /\ client[c].result # "response"

\* C26: when getAccessToken() or forceRefresh() settles with a
\* TokenRefreshError inside requestWithRetry, the next step of the call
\* ends it with that TokenRefreshError: no sleep, no further pass, no
\* TimeoutError or UpstreamError in its place.
C26_TokenRefreshErrorReachesCaller ==
    [][\A c \in Callers :
          (/\ client[c].pc \in {"token", "force"}
           /\ proc[c].pc = "done"
           /\ proc[c].err = "TokenRefreshError"
           /\ client'[c] # client[c])
          => (client'[c].pc = "done" /\ client'[c].result = "TokenRefreshError")]_vars

----------------------------------------------------------------------------
(* Properties of _refreshTokenRequest *)

\* the step sends one more POST of refresh rid
C27_Retries(rid) == refreshes'[rid].attempt # refreshes[rid].attempt

C27_Step ==
    \A rid \in RefreshIds :
        /\ C27_Retries(rid) =>
              /\ refreshes[rid].phase = "post"
              /\ ResponseRetryable \/ ResponseNetworkError
              /\ refreshes'[rid].attempt = refreshes[rid].attempt + 1
              /\ refreshes'[rid].slept =
                    refreshes[rid].slept + REFRESH_BASE_DELAY * 2 ^ refreshes[rid].attempt
        /\ (ResponseFatal /\ refreshes[rid].phase = "post"
                /\ refreshes'[rid].phase # "post") =>
              /\ refreshes'[rid].phase = "failed"
              /\ refreshes'[rid].err = "TokenRefreshError"
              /\ refreshes'[rid].slept = refreshes[rid].slept
              /\ Posts(refreshes'[rid]) = Posts(refreshes[rid])
        /\ Settled(refreshes[rid]) => Posts(refreshes'[rid]) = Posts(refreshes[rid])

----------------------------------------------------------------------------
(* Properties of the reassembly of tool calls *)

\* the input member of the event of a text
InputOf(e) == Get(JSONParse(e).val, K_input)
\* the step feeds the event e to the parser
C28_Fed(e) ==
    /\ ~returned.called
    /\ returned' = returned
    /\ parser' = Feed(parser, ByteChunk(e)).parser

C28_Step ==
    \A e \in ObjectEvents : C28_Fed(e) =>
        LET open == parser.currentToolCall
            n == Len(parser.toolCalls) IN
        /\ e \in ObjectInputEvents =>
              /\ parser'.toolCalls = parser.toolCalls
              /\ ~open.set => parser'.currentToolCall = open
              /\ open.set =>
                    /\ parser'.currentToolCall.set
                    /\ parser'.currentToolCall.id = open.id
                    /\ parser'.currentToolCall.name = open.name
                    /\ InputOf(e).t = "string" =>
                          parser'.currentToolCall.arguments = open.arguments \o InputOf(e).v
        /\ e \in ObjectStartEvents =>
              /\ Len(parser'.toolCalls) >= n
              /\ SubSeq(parser'.toolCalls, 1, n) = parser.toolCalls
              /\ open.set =>
                    /\ Len(parser'.toolCalls) > n
                    /\ parser'.toolCalls[n + 1].id = open.id
                    /\ parser'.toolCalls[n + 1].name = open.name

RECURSIVE FeedAll(_, _)
FeedAll(p, events) ==
    IF events = <<>> THEN p
    ELSE FeedAll(Feed(p, ByteChunk(Head(events))).parser, Tail(events))

\* a start with empty input, the fragments {"a": then 1,"b": then 2} and a
\* stop leave one call with the arguments {"a":1,"b":2}
C28_Example ==
    FeedAll(NewParser,
            <<ToolStart(<<"f">>, Member(K_toolUseId, Quoted(<<"t">>))
                                     \o Member(K_input, Quoted(<<>>))),
              EventText(K_input, Quoted(Escape(<<"{", Q, "a", Q, ":">>))),
              EventText(K_input, Quoted(Escape(<<"1", ",", Q, "b", Q, ":">>))),
              EventText(K_input, Quoted(<<"2", "}">>)),
              EventText(K_stop, TrueText)>>).toolCalls
        = <<ToolCall(<<"t">>, <<"f">>,
                     <<"{", Q, "a", Q, ":", "1", ",", Q, "b", Q, ":", "2", "}">>)>>

\* C28: a tool_input event changes the open call only (its id and name
\* stay, a string input is appended to its arguments), leaves the
\* finalized calls as they are and is ignored when no call is open; a
\* tool_start arriving while a call is open first finalizes that call,
\* after the calls finalized before; the fragments {"a": then 1,"b": then
\* 2} after a start with empty input, and a stop, give {"a":1,"b":2}.
C28_ToolCallReassembly == [](C28_Example) /\ [][C28_Step]_vars

\* the call f with id t, opened without input, was given the fragments
\* {"a": and 1} and was finalized
C28_Witness ==
    \E i \in 1..Len(parser.toolCalls) :
        parser.toolCalls[i] = ToolCall(<<"t">>, <<"f">>, ObjectA)

\* a deep merge of the object b into the object a: a key of b whose values
\* in a and in b are both objects gets their deep merge, another key of b
\* gets the value of b, the other keys of a keep theirs
RECURSIVE DeepMerged(_, _)
DeepMerged(a, b) ==
    IF b = <<>> THEN a
    ELSE LET k == b[1][1]
             old == GetKey(a, k)
             new == IF old.t = "object" /\ b[1][2].t = "object"
                    THEN Obj(DeepMerged(old.v, b[1][2].v))
                    ELSE b[1][2]
         IN DeepMerged(SetKey(a, k, new), Tail(b))

\* the arguments accumulated so far are empty or the text of an object
C29_Accumulated(args) ==
    args = <<>> \/ (JSONParse(args).ok /\ JSONParse(args).val.t = "object")
C29_AccumulatedMembers(args) == IF args = <<>> THEN <<>> ELSE JSONParse(args).val.v

\* C29: a tool_input event with an object payload leaves, in the open
\* call, the serialization of the deep merge of the payload into the
\* arguments accumulated so far: nested objects are merged key by key and
\* no accumulated key is lost unless the payload sets that same key.
C29_DeepMerge ==
    [][\A e \in ObjectInputEvents :
          (/\ C28_Fed(e)
           /\ parser.currentToolCall.set
           /\ InputOf(e).t = "object"
           /\ C29_Accumulated(parser.currentToolCall.arguments))
          => parser'.currentToolCall.arguments =
                JSONStringify(Obj(DeepMerged(
                    C29_AccumulatedMembers(parser.currentToolCall.arguments),
                    InputOf(e).v)))]_vars

\* the same for the payloads and the accumulated arguments that have no
\* object under a key they share
C29_Flat(a, b) ==
    \A i \in 1..Len(b) : ~(GetKey(a, b[i][1]).t = "object" /\ b[i][2].t = "object")
C29_MergeOfFlat ==
    [][\A e \in ObjectInputEvents :
          (/\ C28_Fed(e)
           /\ parser.currentToolCall.set
           /\ InputOf(e).t = "object"
           /\ C29_Accumulated(parser.currentToolCall.arguments)
           /\ C29_Flat(C29_AccumulatedMembers(parser.currentToolCall.arguments),
                       InputOf(e).v))
          => parser'.currentToolCall.arguments =
                JSONStringify(Obj(DeepMerged(
                    C29_AccumulatedMembers(parser.currentToolCall.arguments),
                    InputOf(e).v)))]_vars

----------------------------------------------------------------------------
(* Properties of deduplicateToolCalls *)

\* the rank of an arguments string: its length, "{}" (and "") lowest
C30_Rank(arguments) ==
    IF arguments = <<>> \/ arguments = EmptyObjectText THEN 0 ELSE Len(arguments)
\* the index in calls of the call kept for an id: the first of those with
\* the highest rank
C30_Best(calls, id) ==
    CHOOSE i \in 1..Len(calls) :
        /\ calls[i].id = id
        /\ \A j \in 1..Len(calls) : calls[j].id = id =>
              \/ C30_Rank(calls[j].arguments) < C30_Rank(calls[i].arguments)
              \/ C30_Rank(calls[j].arguments) = C30_Rank(calls[i].arguments) /\ i <= j
C30_First(calls, id) == CHOOSE i \in 1..Len(calls) :
                            calls[i].id = id /\ \A j \in 1..(i - 1) : calls[j].id # id
C30_Pair(tc) ==
    <<tc.name, IF tc.arguments = <<>> THEN EmptyObjectText ELSE tc.arguments>>
C30_Ids(calls) == {calls[i].id : i \in 1..Len(calls)}

C30_Deduplicated(in, out) ==
    \* no two calls with the same id, no two with the same (name, arguments)
    /\ \A i, j \in 1..Len(out) :
          i # j => (out[i].id # out[j].id /\ C30_Pair(out[i]) # C30_Pair(out[j]))
    \* each call kept is, for its id, the one with the longer arguments
    /\ \A i \in 1..Len(out) :
          out[i].id \in C30_Ids(in) /\ out[i] = in[C30_Best(in, out[i].id)]
    \* one call is kept for each (name, arguments) pair left by the first pass:
    \* the first of them
    /\ \A id \in C30_Ids(in) :
          \E i \in 1..Len(out) :
              /\ C30_Pair(out[i]) = C30_Pair(in[C30_Best(in, id)])
              /\ C30_First(in, out[i].id) <= C30_First(in, id)
    \* in the order of the first occurrences
    /\ \A i, j \in 1..Len(out) :
          i < j => C30_First(in, out[i].id) < C30_First(in, out[j].id)

\* C30: of the finalized calls, getToolCalls() returns for each id the
\* call with the longer arguments ("{}" lowest) and one call per (name,
\* arguments), in first-occurrence order, without two calls of one id or
\* of one (name, arguments); deduplicating the result again changes nothing.
C30_Deduplicate ==
    returned.called =>
        /\ C30_Deduplicated(parser.toolCalls, returned.toolCalls)
        /\ DeduplicateToolCalls(returned.toolCalls) = returned.toolCalls

\* two calls of one id, the second with the longer arguments, and a third
\* call with the name and the arguments of none of them
C30_Witness ==
    /\ returned.called
    /\ Len(parser.toolCalls) = 3
    /\ parser.toolCalls[1].id = parser.toolCalls[2].id
    /\ C30_Rank(parser.toolCalls[1].arguments) < C30_Rank(parser.toolCalls[2].arguments)
    /\ returned.toolCalls = <<parser.toolCalls[2], parser.toolCalls[3]>>

----------------------------------------------------------------------------
(* Properties of the content events *)

\* the data of the last content event among events, undefined if none
LastEmitted(events) ==
    LET at == {i \in 1..Len(events) : events[i].type = "content"}
    IN  IF at = {} THEN Undefined
        ELSE events[CHOOSE i \in at : \A j \in at : j <= i].data

\* the step feeds the event e to the parser
C31_Fed(e) ==
    /\ ~returned.called
    /\ returned' = returned
    /\ parser' = Feed(parser, ByteChunk(e)).parser
    /\ fed' = fed \o Feed(parser, ByteChunk(e)).events

C31_Step ==
    \A e \in StreamedEvents : C31_Fed(e) =>
        LET data == JSONParse(e).val
            content == Get(data, K_content) IN
        /\ IsTruthy(Get(data, K_followupPrompt)) => fed' = fed
        /\ (content.t = "string" /\ ~IsTruthy(Get(data, K_followupPrompt))) =>
              fed' = IF content = LastEmitted(fed) THEN fed
                     ELSE Append(fed, Event("content", content))

\* C31: a content event whose string is that of the content event
\* emitted last is dropped, any other content event is emitted (after those
\* emitted before), and an event carrying followupPrompt emits nothing.
C31_ContentDeduplication == [][C31_Step]_vars

\* three content events were emitted, the third with the string of the first
C31_Witness ==
    /\ Len(fed) = 3
    /\ fed[1] = Event("content", Str(<<"a">>))
    /\ fed[2] = Event("content", Str(<<"b">>))
    /\ fed[3] = Event("content", Str(<<"a">>))
    /\ parser.lastContent = Str(<<"a">>)

----------------------------------------------------------------------------
(* Properties of the read loop of streamKiroToOpenAI *)

\* the step is a read timeout in the loop after the first chunk
C32_TimesOut == gen.pc = "read" /\ gen'.consecutiveTimeouts = gen.consecutiveTimeouts + 1

C32_Step ==
    /\ C32_TimesOut =>
          /\ gen'.consecutiveTimeouts <= 3 =>
                (gen'.pc = "read" /\ gen'.error = "none" /\ frames' = frames)
          /\ gen'.consecutiveTimeouts > 3 =>
                (gen'.pc = "failed" /\ gen'.error = "stream_timeout")
    /\ (gen.pc \in {"first", "read"} /\ upstream # NoUpstream /\ upstream' # NoUpstream
            /\ upstream'.pos > upstream.pos) =>
          gen'.consecutiveTimeouts = 0
    /\ (gen.pc = "read" /\ gen'.pc = "failed" /\ gen'.error = "stream_timeout") =>
          gen.consecutiveTimeouts = 3

\* C32: in the loop after the first chunk a read timeout that is the
\* first, second or third in a row leaves the generator reading, without
\* frame or error; a read that resolves with a chunk sets the count of
\* consecutive timeouts to 0; the generator fails with the stream timeout
\* error at the fourth timeout in a row and at no other.
C32_ConsecutiveTimeouts ==
    /\ [](gen.pc # "none" => gen.consecutiveTimeouts <= 4)
    /\ [][C32_Step]_vars

\* four timeouts in a row after a chunk was read
C32_Witness ==
    /\ gen.pc = "failed"
    /\ gen.error = "stream_timeout"
    /\ gen.consecutiveTimeouts = 4
    /\ Len(fed) > 0

----------------------------------------------------------------------------
(* Properties of the placement of the system prompt *)

\* the history entries and the current content that begin with the system
\* prompt and the blank line
C33_Carriers(payload, systemPrompt) ==
    {i \in 1..Len(payload.history) :
        StartsWith(payload.history[i].content, systemPrompt \o <<LF, LF>>)}
C33_InCurrent(payload, systemPrompt) ==
    StartsWith(payload.content, systemPrompt \o <<LF, LF>>)
C33_UserEntries(payload) ==
    {i \in 1..Len(payload.history) : payload.history[i].kind = "userInputMessage"}

C33_Placed(payload, merged, systemPrompt) ==
    /\ Cardinality(C33_Carriers(payload, systemPrompt))
           + (IF C33_InCurrent(payload, systemPrompt) THEN 1 ELSE 0) = 1
    /\ Len(merged) > 1 =>
          \E i \in C33_Carriers(payload, systemPrompt) :
              /\ i \in C33_UserEntries(payload)
              /\ \A j \in C33_UserEntries(payload) : i <= j
    /\ (Len(merged) = 1 /\ merged[1].role # "assistant") =>
          C33_InCurrent(payload, systemPrompt)

\* C33: a non-empty system prompt is in the payload exactly once: before
\* the content of the first user entry of history when there are messages
\* before the current one, before the current content otherwise.
C33_SystemPromptOnce ==
    (conv.pc = "returned" /\ ~conv.payload.thrown /\ SystemPrompt(conv.messages) # <<>>) =>
        C33_Placed(conv.payload, conv.mergedMessages, SystemPrompt(conv.messages))

\* the same for the requests whose first message after the system messages
\* is a user message, and for those of one message
C33_SystemPromptOnceWhenUserFirst ==
    (/\ conv.pc = "returned" /\ ~conv.payload.thrown
     /\ SystemPrompt(conv.messages) # <<>>
     /\ Len(conv.mergedMessages) = 1 \/ conv.mergedMessages[1].role = "user") =>
        C33_Placed(conv.payload, conv.mergedMessages, SystemPrompt(conv.messages))

----------------------------------------------------------------------------
(* Properties of the extraction of long tool descriptions *)

\* the description a tool of the request carries, in its format
C34_Description(tool) ==
    LET holder == IF IsTruthy(Get(tool, K_function)) THEN Get(tool, K_function)
                  ELSE IF IsTruthy(Get(tool, K_toolSpecification))
                  THEN Get(tool, K_toolSpecification)
                  ELSE tool
    IN ToStr(Or(Get(holder, K_description), Str(<<>>)))
\* the description of the tool in the payload
C34_Sent(kiroTool) ==
    ToStr(Get(Get(kiroTool, K_toolSpecification), K_description))
C34_Contains(s, part) ==
    \E i \in 0..(Len(s) - Len(part)) : SubSeq(s, i + 1, i + Len(part)) = part

C34_Extracted(tool, kiroTool) ==
    LET description == C34_Description(tool)
        name == ToStr(GetToolName(tool))
    IN IF conv.limit = 0 \/ Len(description) <= conv.limit
       THEN C34_Sent(kiroTool) = description
       ELSE /\ C34_Sent(kiroTool) = ReferenceDescription(name)
            /\ C34_Contains(conv.systemPrompt, ToolDoc(name, description))

\* C34: whatever the format of a tool, its description reaches the payload
\* unchanged when it is not longer than the limit or the limit is 0, and
\* otherwise the payload has the reference in its place and the system
\* prompt has the description under "## Tool: <name>".
C34_LongDescriptions ==
    (conv.pc = "built" /\ IsTruthy(conv.tools)) =>
        /\ Len(conv.contextTools) = Len(conv.tools.v)
        /\ \A i \in 1..Len(conv.tools.v) :
               C34_Extracted(conv.tools.v[i], conv.contextTools[i])
        /\ conv.limit = 0 => conv.documentation = <<>>

\* the same for the tools of the OpenAI format only
C34_LongDescriptionsOfFunctions ==
    (conv.pc = "built" /\ IsTruthy(conv.tools)) =>
        /\ Len(conv.contextTools) = Len(conv.tools.v)
        /\ \A i \in 1..Len(conv.tools.v) :
               Get(conv.tools.v[i], K_type) = T_function =>
                   C34_Extracted(conv.tools.v[i], conv.contextTools[i])
        /\ conv.limit = 0 => conv.documentation = <<>>

----------------------------------------------------------------------------
(* Properties of the collect mode *)

\* the content events the parser handed over, in order
RECURSIVE C35_ContentEvents(_)
C35_ContentEvents(events) ==
    IF events = <<>> THEN <<>>
    ELSE (IF Head(events).type = "content" THEN <<Head(events).data>> ELSE <<>>)
         \o C35_ContentEvents(Tail(events))

\* what a client makes of the frames of an OpenAI stream: the text of the
\* deltas, the tool calls of the deltas, the finish reasons
RECURSIVE C35_ChunkTexts(_)
C35_ChunkTexts(fs) ==
    IF fs = <<>> THEN <<>>
    ELSE (IF Head(fs).type = "chunk" THEN ToStr(Head(fs).content) ELSE <<>>)
         \o C35_ChunkTexts(Tail(fs))
C35_FinishReasons(fs) ==
    {fs[i].finish_reason : i \in {j \in 1..Len(fs) : fs[j].type = "final"}}
C35_NameAndArguments(toolCalls) ==
    [i \in 1..Len(toolCalls) |->
        [name |-> toolCalls[i].name, arguments |-> toolCalls[i].arguments]]

\* what a client makes of the frames of an Anthropic stream: the text of
\* the text deltas, the tool_use blocks with the input of their
\* input_json_delta ({} without one), the stop reasons
RECURSIVE C35_DeltaTexts(_)
C35_DeltaTexts(fs) ==
    IF fs = <<>> THEN <<>>
    ELSE (IF Head(fs).type = "content_block_delta" /\ Head(fs).delta = "text_delta"
          THEN ToStr(Head(fs).text) ELSE <<>>)
         \o C35_DeltaTexts(Tail(fs))
C35_BlockInput(fs, index) ==
    LET deltas == {j \in 1..Len(fs) :
                      /\ fs[j].type = "content_block_delta"
                      /\ fs[j].delta = "input_json_delta"
                      /\ fs[j].index = index}
    IN IF deltas = {} THEN Obj(<<>>)
       ELSE JSONParse(ToStr(fs[CHOOSE j \in deltas : TRUE].text)).val
RECURSIVE C35_ToolUses(_, _)
C35_ToolUses(fs, rest) ==
    IF rest = <<>> THEN <<>>
    ELSE (IF Head(rest).type = "content_block_start" /\ Head(rest).block = "tool_use"
          THEN <<[name |-> Head(rest).name,
                  input |-> C35_BlockInput(fs, Head(rest).index)]>>
          ELSE <<>>)
         \o C35_ToolUses(fs, Tail(rest))
C35_StopReasons(fs) ==
    {fs[i].stop_reason : i \in {j \in 1..Len(fs) : fs[j].type = "message_delta"}}

\* the text and the tool_use blocks of a collected Anthropic message
RECURSIVE C35_BlocksText(_)
C35_BlocksText(blocks) ==
    IF blocks = <<>> THEN <<>>
    ELSE (IF Head(blocks).type = "text" THEN Head(blocks).text ELSE <<>>)
         \o C35_BlocksText(Tail(blocks))
RECURSIVE C35_BlocksToolUses(_)
C35_BlocksToolUses(blocks) ==
    IF blocks = <<>> THEN <<>>
    ELSE (IF Head(blocks).type = "tool_use"
          THEN <<[name |-> Head(blocks).name, input |-> Head(blocks).input]>>
          ELSE <<>>)
         \o C35_BlocksToolUses(Tail(blocks))

\* the response collectOpenAIResponse returns for the frames, and the
\* stream, say the same
C35_OpenAIAgrees(fs) ==
    LET collected == CollectOpenAIResponse(fs)
    IN /\ collected.content = C35_ChunkTexts(fs)
       /\ C35_NameAndArguments(collected.tool_calls)
              = C35_NameAndArguments(DeltaToolCalls(fs))
       /\ C35_FinishReasons(fs) = {collected.finish_reason}

\* the message collectAnthropicResponse returns for the body that was
\* read, and the stream, say the same
C35_AnthropicAgrees(fs) ==
    LET collected == CollectAnthropicResponse(gen.reader, C35_ContentEvents(fed),
                                              GetToolCalls(parser).toolCalls)
    IN /\ C35_BlocksText(collected.content) = C35_DeltaTexts(fs)
       /\ C35_BlocksToolUses(collected.content) = C35_ToolUses(fs, fs)
       /\ C35_StopReasons(fs) = {collected.stop_reason}

C35_Ended(dialect) ==
    /\ gen.pc = "done"
    /\ gen.error = "none"
    /\ gen.dialect = dialect
    /\ ~gen.retry

\* C35: for a response read to its end without error, the collected
\* response and the stream carry the same text, the same tool calls (name
\* and arguments) and the same stop reason.
C35_CollectAgreesWithStream ==
    /\ C35_Ended("openai") => C35_OpenAIAgrees(frames)
    /\ C35_Ended("anthropic") => C35_AnthropicAgrees(frames)

\* the same for the responses of which a chunk was read
C35_CollectAgreesAfterFirstChunk ==
    /\ (C35_Ended("openai") /\ returned.called) => C35_OpenAIAgrees(frames)
    /\ (C35_Ended("anthropic") /\ gen.reader) => C35_AnthropicAgrees(frames)

----------------------------------------------------------------------------
(* Properties of the read timeouts and the data *)

\* C36: a read timeout the OpenAI generator tolerates loses nothing: every
\* chunk the body delivered was fed to the parser, once and in order, and
\* at the end the content of the frames is the content of the body.
C36_TimeoutLosesNoData ==
    (gen.dialect = "openai" /\ gen.pc \in {"read", "done"} /\ gen.error = "none") =>
        /\ upstream.pos = Len(upstream.text)
        /\ fed = WholeFeed.events
        /\ gen.pc = "done" =>
              C35_ChunkTexts(frames) = Join(ContentData(WholeFeed.events))

\* a chunk is delivered and not fed only when a read abandoned by a timeout
\* is pending in the reader
C36_Lost ==
    /\ gen.pc \in {"first", "read"}
    /\ Len(upstream'.text) > Len(upstream.text)
    /\ fed' = fed
    /\ upstream'.pos = upstream.pos
C36_LossOnlyAfterTimeout ==
    [][C36_Lost => (gen.abandoned > 0 /\ gen.dialect = "openai")]_vars

\* when every delivered chunk was fed, the events and the content are those
\* of the body
C36_FedIsEmitted ==
    (/\ gen.dialect = "openai" /\ gen.pc \in {"read", "done"} /\ gen.error = "none"
     /\ upstream.pos = Len(upstream.text)) =>
        /\ fed = WholeFeed.events
        /\ gen.pc = "done" =>
              C35_ChunkTexts(frames) = Join(ContentData(WholeFeed.events))

----------------------------------------------------------------------------
(* Properties of the size of the credential cache *)

\* C37: whatever getOrCreate, remove and clear were called with, the empty
\* refresh token included, the cache holds at most maxSize entries.
C37_SizeWithinMaxSize == Len(cache) <= MaxSize

\* the same when no getOrCreate call was made with the empty string
C37_SizeWithoutEmptyKey ==
    (\A i \in GetOrCreateIds : reqs[i].key # EmptyString) => Len(cache) <= MaxSize

----------------------------------------------------------------------------
(* Properties of the fields and the file under a refresh *)

\* a successful refresh has set a new accessToken and a new expiresAt, and
\* the refreshToken and the profileArn are new or as before
C38_Together ==
    disk.pc = "ok" =>
        /\ disk.manager.accessToken # disk.before.accessToken
        /\ disk.manager.expiresAt \notin {disk.before.expiresAt, InvalidDate}
        /\ IsTruthy(disk.manager.refreshToken)

\* C38: a refresh that fails leaves accessToken, expiresAt, refreshToken
\* and profileArn as they were and the credentials file unwritten; the
\* fields and the file change only in the step that ends a refresh with
\* success, and then the accessToken and expiresAt change together.
C38_FailureChangesNothing ==
    /\ [](disk.pc = "failed" => (disk.manager = disk.before /\ disk.file = disk.old))
    /\ [](C38_Together)
    /\ [][(disk'.manager # disk.manager \/ disk'.file # disk.file) =>
              disk'.pc = "ok"]_vars

\* the same for the refreshes no answer of which had an expiresIn that is
\* not a number
C38_FailureChangesNothingWithValidExpiry ==
    /\ []((disk.pc = "failed" /\ disk.manager.expiresAt # InvalidDate) =>
              (disk.manager = disk.before /\ disk.file = disk.old))
    /\ [](C38_Together)
    /\ [][((disk'.manager # disk.manager \/ disk'.file # disk.file)
           /\ disk'.manager.expiresAt # InvalidDate) =>
              disk'.pc = "ok"]_vars

\* the file is written by a successful refresh only
C38_FileWrittenOnSuccessOnly ==
    /\ [](disk.pc = "failed" => disk.file = disk.old)
    /\ [][disk'.file # disk.file => disk'.pc = "ok"]_vars

----------------------------------------------------------------------------
(* Properties of the end of an OpenAI stream *)

\* the frames that carry a finish_reason that is not null
C39_Finishing(fs) ==
    {i \in 1..Len(fs) :
        fs[i].type \in {"chunk", "tool_calls", "final"} /\ fs[i].finish_reason # "null"}

\* one chunk with a finish_reason and the usage, right before [DONE]
C39_OneFinalChunk(fs) ==
    /\ Len(fs) >= 2
    /\ fs[Len(fs)] = DoneFrame
    /\ C39_Finishing(fs) = {Len(fs) - 1}
    /\ fs[Len(fs) - 1].type = "final"
    /\ fs[Len(fs) - 1].finish_reason \in {"stop", "tool_calls"}
    /\ fs[Len(fs) - 1].total_tokens
           = fs[Len(fs) - 1].prompt_tokens + fs[Len(fs) - 1].completion_tokens

C39_Ended ==
    gen.dialect = "openai" /\ gen.pc = "done" /\ gen.error = "none"

\* C39: every OpenAI stream that ends without error, the response without
\* body and the body that ends at the first read included, has exactly one
\* chunk with a finish_reason and usage, before data: [DONE].
C39_FinalChunkBeforeDone == C39_Ended => C39_OneFinalChunk(frames)

\* the same for the streams that got a first chunk
C39_FinalChunkAfterFirstChunk ==
    (C39_Ended /\ returned.called) => C39_OneFinalChunk(frames)

----------------------------------------------------------------------------
(* Properties of the finalization of tool calls *)

\* the names of the tool_start events of a body, in order
C40_StartsAt(text) == {i \in 1..Len(text) : MatchesAt(text, i, Pattern(K_name))}
C40_Starts(text) ==
    [k \in 1..Cardinality(C40_StartsAt(text)) |->
        text[(CHOOSE i \in C40_StartsAt(text) :
                 Cardinality({j \in C40_StartsAt(text) : j < i}) = k - 1)
             + Len(Pattern(K_name)) + 1]]

\* the names of the finalized calls and of the open call, in order
C40_Records(p) ==
    [i \in 1..Len(p.toolCalls) |-> p.toolCalls[i].name]
    \o (IF p.currentToolCall.set THEN <<p.currentToolCall.name>> ELSE <<>>)

C40_Fed(e) ==
    /\ ~returned.called
    /\ returned' = returned
    /\ parser' = Feed(parser, ByteChunk(e)).parser

C40_Step ==
    /\ Len(parser.toolCalls) <= Len(parser'.toolCalls)
    /\ SubSeq(parser'.toolCalls, 1, Len(parser.toolCalls)) = parser.toolCalls
    /\ (~parser.currentToolCall.set
        /\ \E e \in StartStopEvents : C40_Fed(e) /\ ~MatchesAt(e, 1, Pattern(K_name)))
           => parser' = parser

\* C40: from the construction of the parser to getToolCalls() the
\* finalized calls, followed by the open call, are the tool_start events
\* of the body, one each and in order; a finalized call stays as it is and
\* where it is; a stop (or input) event without open call changes nothing;
\* after getToolCalls() no call is open.
C40_OneRecordPerStart ==
    /\ [](/\ [i \in 1..Len(C40_Records(parser)) |-> C40_Records(parser)[i][1]]
                 = C40_Starts(upstream.text)
          /\ returned.called => ~parser.currentToolCall.set)
    /\ [][C40_Step]_vars

\* a start with the stop flag, a stop event, a start left open, then
\* getToolCalls(): two calls
C40_Witness ==
    /\ returned.called
    /\ upstream.text =
         ToolStart(<<"f">>, Member(K_toolUseId, Quoted(<<"t">>)) \o Member(K_stop, TrueText))
         \o EventText(K_stop, TrueText)
         \o ToolStart(<<"g">>, <<>>)
    /\ C40_Records(parser) = << <<"f">>, <<"g">> >>

====
